---- MODULE Spec2Model ----
(***************************************************************************)
(* A model of the Sia consensus engine (package consensus) and of the     *)
(* catch-up code of package sia.                                          *)
(*                                                                         *)
(* Hashes are modelled as injective functions of what they hash: a block  *)
(* ID is the ID of the parent extended by the header fields, an output ID *)
(* names the block (subsidy) or the transaction and index that produce    *)
(* it, a coin address is the spend conditions it commits to.              *)
(***************************************************************************)
EXTENDS Integers, Sequences, FiniteSets, TLC

(***************************************************************************)
(* Program constants (src/consensus/builddev.go:15-32).                   *)
(***************************************************************************)
BlockSizeLimit == 1073741824
BlockFrequency == 10
TargetWindow == 80
MedianTimestampWindow == 11
FutureThreshold == 10800
InitialCoinbase == 300000
MinimumCoinbase == 30000
GenesisTimestamp == 1417070299

\* GenesisAddress = CoinAddress{}: the zero address, which no spend
\* conditions hash to.
GenesisAddress == << >>

(***************************************************************************)
(* Maps (Go map[K]V) as functions with a finite domain.                   *)
(***************************************************************************)
EmptyMap == [x \in {} |-> x]

Put(f, k, v) == [x \in (DOMAIN f) \cup {k} |-> IF x = k THEN v ELSE f[x]]

Del(f, k) == [x \in (DOMAIN f) \ {k} |-> f[x]]

Has(f, k) == k \in DOMAIN f

Range(q) == {q[i] : i \in DOMAIN q}

RECURSIVE SumSeq(_)
SumSeq(q) == IF q = << >> THEN 0 ELSE Head(q) + SumSeq(Tail(q))

RECURSIVE Reverse(_)
Reverse(q) == IF q = << >> THEN << >> ELSE Append(Reverse(Tail(q)), Head(q))

\* The elements of a finite set in one fixed total order (the order in which
\* sort.Strings puts the IDs).
RECURSIVE SortedSeq(_)
SortedSeq(S) ==
    IF S = {} THEN << >>
    ELSE LET x == CHOOSE y \in S : TRUE IN <<x>> \o SortedSeq(S \ {x})

Max(a, b) == IF a >= b THEN a ELSE b

\* Bind(v, F) is F(v): the result v of a call under a name.
Bind(v, F(_)) == F(v)

\* The first error of a list of results, "nil" if there is none.
FirstError(errs) ==
    IF \A i \in DOMAIN errs : errs[i] = "nil" THEN "nil"
    ELSE errs[CHOOSE i \in DOMAIN errs :
                 errs[i] # "nil" /\ \A j \in 1..(i - 1) : errs[j] = "nil"]

Min(a, b) == IF a <= b THEN a ELSE b

(***************************************************************************)
(* Types of package consensus.                                            *)
(***************************************************************************)
\* SpendConditions.CoinAddress(): the hash of the spend conditions.
CoinAddress(sc) == <<sc>>

\* Block.ID(): the hash of the header (parent, nonce, timestamp, miner
\* address, Merkle root; the transactions are committed to by the root).
BlockID(b) ==
    Append(b.ParentBlockID,
           [Nonce |-> b.Nonce, Timestamp |-> b.Timestamp,
            MinerAddress |-> b.MinerAddress, MerkleRoot |-> b.MerkleRoot])

\* Block.SubsidyID(): the ID of the output that pays the miner of the block.
SubsidyIDOf(bid) == [blk |-> <<bid>>, txn |-> << >>, idx |-> 0]

SubsidyID(b) == SubsidyIDOf(BlockID(b))

\* Transaction.OutputID(i): the ID of output i (counted from 0) of t.
OutputID(t, i) == [blk |-> << >>, txn |-> <<t>>, idx |-> i]

\* Transaction.FileContractID(i): the ID of file contract i of t.
FileContractID(t, i) == [txn |-> t, idx |-> i]

\* Block.TransactionMerkleRoot(): the Merkle root of the transactions.
TransactionMerkleRoot(txns) == txns

\* CalculateCoinbase(height).
CalculateCoinbase(h) == Max(InitialCoinbase - h, MinimumCoinbase)

\* crypto.VerifyBytes(sigHash, publicKey, signature): a signature is the key
\* it was made with over the message it was made for; the message of
\* signature i is Transaction.SigHash(i), which every signer of the model
\* signs, so that a signature verifies exactly under its own key.
VerifyBytes(publicKey, signature) == signature = publicKey

GenesisBlock ==
    [ParentBlockID |-> << >>, Nonce |-> 0, Timestamp |-> GenesisTimestamp,
     MinerAddress |-> GenesisAddress, MerkleRoot |-> << >>,
     Transactions |-> << >>]

\* The ID of the genesis block.
GenesisID == BlockID(GenesisBlock)

(***************************************************************************)
(* State (src/consensus/builddev.go:349-390) is a record with the fields  *)
(* of the struct; blockRoot is the node blockMap[GenesisID].              *)
(***************************************************************************)
height(s) == s.blockMap[s.currentBlockID].Height

currentBlockNode(s) == s.blockMap[s.currentBlockID]

(***************************************************************************)
(* Transaction validation.                                                *)
(***************************************************************************)
\* validContract: sane start and end heights (the contract starts after the
\* current height and ends after it starts); the fund is a Currency and
\* cannot be negative.
validContract(s, c) ==
    IF c.Start <= height(s) THEN "contract must start in the future"
    ELSE IF c.End <= c.Start THEN "contract duration must be at least one block"
    ELSE "nil"

\* validProof: the proof names an open contract and the current height is
\* inside that contract's challenge windows, which begin at Start.
validProof(s, sp) ==
    IF ~Has(s.openContracts, sp.ContractID) THEN "unrecognized contract id in storage proof"
    ELSE IF height(s) < s.openContracts[sp.ContractID].FileContract.Start
         THEN "storage proof outside of a challenge window"
    ELSE IF ~sp.Valid THEN "provided storage proof is invalid"
    ELSE "nil"

validInput_NoTimeLock(s, input) ==
    IF ~Has(s.unspentOutputs, input.OutputID)
    THEN "transaction spends a nonexisting output"
    ELSE IF CoinAddress(input.SpendConditions) # s.unspentOutputs[input.OutputID].SpendHash
    THEN "spend conditions do not match hash"
    ELSE "nil"

validInput(s, input) ==
    IF ~Has(s.unspentOutputs, input.OutputID)
    THEN "transaction spends a nonexisting output"
    ELSE IF CoinAddress(input.SpendConditions) # s.unspentOutputs[input.OutputID].SpendHash
    THEN "spend conditions do not match hash"
    ELSE IF input.SpendConditions.TimeLock > height(s)
    THEN "output spent before timelock expiry."
    ELSE "nil"

\* The first loop of validTransaction (lines 170-194): the error of the first
\* input that fails validInput or repeats the OutputID of an earlier input.
InputError(s, t, i) ==
    Bind(validInput(s, t.Inputs[i]), LAMBDA e :
        IF e # "nil" THEN e
        ELSE IF \E j \in 1..(i - 1) : t.Inputs[j].OutputID = t.Inputs[i].OutputID
        THEN "output spent twice in same transaction"
        ELSE "nil")

InputsError(s, t) == FirstError([i \in DOMAIN t.Inputs |-> InputError(s, t, i)])

\* inputSignaturesMap after the first loop: UsedKeys is left nil.
InputSignaturesMap(t) ==
    [id \in {t.Inputs[i].OutputID : i \in DOMAIN t.Inputs} |->
        LET i == CHOOSE k \in DOMAIN t.Inputs : t.Inputs[k].OutputID = id
        IN [RemainingSignatures |-> t.Inputs[i].SpendConditions.NumSignatures,
            PossibleKeys |-> t.Inputs[i].SpendConditions.PublicKeys,
            UsedKeys |-> {},
            Index |-> i - 1]]

InputSum(s, t) == SumSeq([i \in DOMAIN t.Inputs |-> s.unspentOutputs[t.Inputs[i].OutputID].Value])

OutputSum(t) ==
    SumSeq(t.MinerFees)
    + SumSeq([i \in DOMAIN t.Outputs |-> t.Outputs[i].Value])
    + SumSeq([i \in DOMAIN t.FileContracts |-> t.FileContracts[i].ContractFund])

ContractsError(s, t) ==
    FirstError([i \in DOMAIN t.FileContracts |-> validContract(s, t.FileContracts[i])])

ProofsError(s, t) ==
    FirstError([i \in DOMAIN t.StorageProofs |-> validProof(s, t.StorageProofs[i])])

\* The signature loop (lines 243-271) from signature i on, with the map m.
\* A signature whose InputID is not a key of the map dereferences a nil
\* pointer, one whose PublicKeyIndex is outside PossibleKeys indexes out of
\* range: both panic.
RECURSIVE SignaturesError(_, _, _, _)
SignaturesError(s, t, i, m) ==
    IF i > Len(t.Signatures) THEN
        IF \E id \in DOMAIN m : m[id].RemainingSignatures # 0
        THEN "an input has not been fully signed"
        ELSE "nil"
    ELSE
        LET sig == t.Signatures[i] IN
        IF ~Has(m, sig.InputID) THEN "panic"
        ELSE IF m[sig.InputID].RemainingSignatures = 0
        THEN "friviolous signature detected."
        ELSE IF sig.PublicKeyIndex \in m[sig.InputID].UsedKeys
        THEN "public key used twice while signing"
        ELSE IF sig.TimeLock > height(s)
        THEN "signature timelock has not expired"
        ELSE IF sig.PublicKeyIndex + 1 > Len(m[sig.InputID].PossibleKeys)
        THEN "panic"
        ELSE IF ~VerifyBytes(m[sig.InputID].PossibleKeys[sig.PublicKeyIndex + 1], sig.Signature)
        THEN "InvalidSignatureErr"
        ELSE SignaturesError(s, t, i + 1,
                [m EXCEPT ![sig.InputID].RemainingSignatures = @ - 1])

\* validTransaction: "nil", the error, or "panic".
validTransaction(s, t) ==
    Bind(InputsError(s, t), LAMBDA e1 :
    IF e1 # "nil" THEN e1 ELSE
    Bind(ContractsError(s, t), LAMBDA e2 :
    IF e2 # "nil" THEN e2 ELSE
    Bind(ProofsError(s, t), LAMBDA e3 :
    IF e3 # "nil" THEN e3
    ELSE IF InputSum(s, t) < OutputSum(t)
    THEN "Inputs do not equal outputs for transaction"
    ELSE SignaturesError(s, t, 1, InputSignaturesMap(t)))))

(***************************************************************************)
(* A Go panic unwinds the call and ends the process: the field panic of   *)
(* the state holds its message ("" while the process runs).               *)
(***************************************************************************)
Panic(s, msg) == IF s.panic = "" THEN [s EXCEPT !.panic = msg] ELSE s

(***************************************************************************)
(* The transaction pool.                                                  *)
(***************************************************************************)
\* transactionPoolConflict: an input of t is spent by a pool transaction,
\* or a storage proof of t is for a contract a pool transaction proves.
transactionPoolConflict(s, t) ==
    \/ \E i \in DOMAIN t.Inputs : Has(s.transactionPoolOutputs, t.Inputs[i].OutputID)
    \/ \E i \in DOMAIN t.StorageProofs : Has(s.transactionPoolProofs, t.StorageProofs[i].ContractID)

\* addTransactionToPool: index every input, every proof's contract, and the
\* first input in the list. A transaction without inputs has no first input:
\* Inputs[0] is out of range.
addTransactionToPool(s, t) ==
    LET ins == {t.Inputs[i].OutputID : i \in DOMAIN t.Inputs}
        prs == {t.StorageProofs[i].ContractID : i \in DOMAIN t.StorageProofs}
        s1 == [s EXCEPT
                 !.transactionPoolOutputs =
                     [id \in (DOMAIN @) \cup ins |-> IF id \in ins THEN t ELSE @[id]],
                 !.transactionPoolProofs =
                     [id \in (DOMAIN @) \cup prs |-> IF id \in prs THEN t ELSE @[id]]]
    IN IF t.Inputs = << >> THEN Panic(s1, "index out of range")
       ELSE [s1 EXCEPT !.transactionList = Put(@, t.Inputs[1].OutputID, t)]

\* removeTransactionFromPool: the inverse of addTransactionToPool.
removeTransactionFromPool(s, t) ==
    LET ins == {t.Inputs[i].OutputID : i \in DOMAIN t.Inputs}
        prs == {t.StorageProofs[i].ContractID : i \in DOMAIN t.StorageProofs}
    IN [s EXCEPT
          !.transactionPoolOutputs = [id \in (DOMAIN @) \ ins |-> @[id]],
          !.transactionPoolProofs = [id \in (DOMAIN @) \ prs |-> @[id]],
          !.transactionList =
              IF t.Inputs = << >> THEN @ ELSE Del(@, t.Inputs[1].OutputID)]

\* removeTransactionConflictsFromPool: remove every pool transaction that
\* shares an input or a proved contract with t (t itself included).
RECURSIVE RemoveAllFromPool(_, _)
RemoveAllFromPool(s, ts) ==
    IF ts = {} THEN s
    ELSE LET t == CHOOSE x \in ts : TRUE
         IN RemoveAllFromPool(removeTransactionFromPool(s, t), ts \ {t})

removeTransactionConflictsFromPool(s, t) ==
    RemoveAllFromPool(s,
        {s.transactionPoolOutputs[t.Inputs[i].OutputID] :
            i \in {j \in DOMAIN t.Inputs : Has(s.transactionPoolOutputs, t.Inputs[j].OutputID)}}
        \cup
        {s.transactionPoolProofs[t.StorageProofs[i].ContractID] :
            i \in {j \in DOMAIN t.StorageProofs :
                        Has(s.transactionPoolProofs, t.StorageProofs[j].ContractID)}})

\* The transactions of the pool (TransactionPoolDump walks transactionList).
PoolTransactions(s) == {s.transactionPoolOutputs[id] : id \in DOMAIN s.transactionPoolOutputs}

(***************************************************************************)
(* Applying and inverting a transaction. An operator that changes the     *)
(* state returns [s |-> the state after, diffs |-> the OutputDiffs].      *)
(*                                                                         *)
(* Storage proofs: validProof admits a proof only from the Start height of *)
(* an open contract on, and every contract of the model starts at         *)
(* ContractStart, above every height the model reaches; a validated       *)
(* transaction therefore carries no storage proof and the loops over      *)
(* t.StorageProofs (lines 69-71 and 127-129) run over the empty list.     *)
(***************************************************************************)
OutputDiff(new, id, output) == [New |-> new, ID |-> id, Output |-> output]

\* applyContract: register the contract with its whole fund remaining (the
\* contract diff it records is not an output diff).
applyContract(s, contract, id) ==
    [s EXCEPT !.openContracts =
        Put(@, id, [FileContract |-> contract, ContractID |-> id,
                    FundsRemaining |-> contract.ContractFund,
                    Failures |-> 0, WindowSatisfied |-> FALSE])]

\* Lines 103-117, from input i on.
RECURSIVE ApplyInputs(_, _, _, _)
ApplyInputs(s, t, i, diffs) ==
    IF i > Len(t.Inputs) THEN [s |-> s, diffs |-> diffs]
    ELSE LET id == t.Inputs[i].OutputID IN
         IF ~Has(s.unspentOutputs, id)
         THEN [s |-> Panic(s, "Applying a transaction with an invalid unspent output!"),
               diffs |-> diffs]
         ELSE ApplyInputs(
                 [s EXCEPT !.spentOutputs = Put(@, id, s.unspentOutputs[id]),
                           !.unspentOutputs = Del(@, id)],
                 t, i + 1,
                 Append(diffs, OutputDiff(FALSE, id, s.unspentOutputs[id])))

\* Lines 119-124, from output i on.
RECURSIVE ApplyOutputs(_, _, _, _)
ApplyOutputs(s, t, i, diffs) ==
    IF i > Len(t.Outputs) THEN [s |-> s, diffs |-> diffs]
    ELSE ApplyOutputs(
            [s EXCEPT !.unspentOutputs = Put(@, OutputID(t, i - 1), t.Outputs[i])],
            t, i + 1,
            Append(diffs, OutputDiff(TRUE, OutputID(t, i - 1), t.Outputs[i])))

\* Lines 131-136, from contract i on.
RECURSIVE ApplyContracts(_, _, _)
ApplyContracts(s, t, i) ==
    IF i > Len(t.FileContracts) THEN s
    ELSE ApplyContracts(applyContract(s, t.FileContracts[i], FileContractID(t, i - 1)),
                        t, i + 1)

applyTransaction_KeepPool(s, t) ==
    Bind(ApplyInputs(s, t, 1, << >>), LAMBDA a :
    Bind(ApplyOutputs(a.s, t, 1, a.diffs), LAMBDA b :
        [s |-> ApplyContracts(b.s, t, 1), diffs |-> b.diffs]))

applyTransaction_KeepInputs(s, t) ==
    Bind(ApplyOutputs(removeTransactionConflictsFromPool(s, t), t, 1, << >>), LAMBDA b :
        [s |-> ApplyContracts(b.s, t, 1), diffs |-> b.diffs])

applyTransaction(s, t) ==
    Bind(ApplyInputs(removeTransactionConflictsFromPool(s, t), t, 1, << >>), LAMBDA a :
    Bind(ApplyOutputs(a.s, t, 1, a.diffs), LAMBDA b :
        [s |-> ApplyContracts(b.s, t, 1), diffs |-> b.diffs]))

\* Lines 62-66.
RECURSIVE InvertContracts(_, _, _)
InvertContracts(s, t, i) ==
    IF i > Len(t.FileContracts) THEN s
    ELSE InvertContracts([s EXCEPT !.openContracts = Del(@, FileContractID(t, i - 1))],
                         t, i + 1)

\* Lines 73-82, from output i on: State.output fails on an ID that is not
\* in the utxo set and the caller panics.
RECURSIVE InvertOutputs(_, _, _, _)
InvertOutputs(s, t, i, diffs) ==
    IF i > Len(t.Outputs) THEN [s |-> s, diffs |-> diffs]
    ELSE LET id == OutputID(t, i - 1) IN
         IF ~Has(s.unspentOutputs, id)
         THEN [s |-> Panic(s, "output not in utxo set"), diffs |-> diffs]
         ELSE InvertOutputs([s EXCEPT !.unspentOutputs = Del(@, id)], t, i + 1,
                            Append(diffs, OutputDiff(FALSE, id, s.unspentOutputs[id])))

\* The zero Output, which a Go map returns for a key it does not hold.
ZeroOutput == [Value |-> 0, SpendHash |-> GenesisAddress]

Lookup(f, k) == IF Has(f, k) THEN f[k] ELSE ZeroOutput

\* Lines 84-90, from input i on.
RECURSIVE InvertInputs(_, _, _, _)
InvertInputs(s, t, i, diffs) ==
    IF i > Len(t.Inputs) THEN [s |-> s, diffs |-> diffs]
    ELSE LET id == t.Inputs[i].OutputID IN
         InvertInputs(
            [s EXCEPT !.unspentOutputs = Put(@, id, Lookup(s.spentOutputs, id)),
                      !.spentOutputs = Del(@, id)],
            t, i + 1,
            Append(diffs, OutputDiff(TRUE, id, Lookup(s.spentOutputs, id))))

invertTransaction_KeepSpent(s, t) ==
    Bind(InvertOutputs(InvertContracts(s, t, 1), t, 1, << >>), LAMBDA a :
    IF a.s.panic # "" THEN a
    ELSE [s |-> addTransactionToPool(a.s, t), diffs |-> a.diffs])

invertTransaction(s, t) ==
    Bind(InvertOutputs(InvertContracts(s, t, 1), t, 1, << >>), LAMBDA a :
    IF a.s.panic # "" THEN a ELSE
    Bind(InvertInputs(a.s, t, 1, a.diffs), LAMBDA b :
        [s |-> addTransactionToPool(b.s, t), diffs |-> b.diffs]))

AcceptTransaction_NoList(s, t) ==
    IF transactionPoolConflict(s, t) THEN [s |-> s, err |-> "ConflictingTransactionErr"]
    ELSE Bind(validTransaction(s, t), LAMBDA e :
         IF e = "panic" THEN [s |-> Panic(s, "nil pointer dereference"), err |-> "panic"]
         ELSE IF e # "nil" THEN [s |-> s, err |-> e]
         ELSE [s |-> [addTransactionToPool(s, t) EXCEPT !.transactionList = s.transactionList],
               err |-> "nil"])

AcceptTransaction_AddFirst(s, t) ==
    IF transactionPoolConflict(s, t) THEN [s |-> s, err |-> "ConflictingTransactionErr"]
    ELSE Bind(validTransaction(s, t), LAMBDA e :
         IF e = "panic" THEN [s |-> Panic(s, "nil pointer dereference"), err |-> "panic"]
         ELSE [s |-> addTransactionToPool(s, t), err |-> e])

(***************************************************************************)
(* AcceptTransaction (lines 294-315): [s |-> state after, err |-> error]. *)
(***************************************************************************)
AcceptTransaction_ValidateFirst(s, t) ==
    Bind(validTransaction(s, t), LAMBDA e :
    IF e = "panic" THEN [s |-> Panic(s, "nil pointer dereference"), err |-> "panic"]
    ELSE IF e # "nil" THEN [s |-> s, err |-> e]
    ELSE IF transactionPoolConflict(s, t) THEN [s |-> s, err |-> "ConflictingTransactionErr"]
    ELSE [s |-> addTransactionToPool(s, t), err |-> "nil"])

AcceptTransaction(s, t) ==
    IF transactionPoolConflict(s, t) THEN [s |-> s, err |-> "ConflictingTransactionErr"]
    ELSE Bind(validTransaction(s, t), LAMBDA e :
         IF e = "panic" THEN [s |-> Panic(s, "nil pointer dereference"), err |-> "panic"]
         ELSE IF e # "nil" THEN [s |-> s, err |-> e]
         ELSE [s |-> addTransactionToPool(s, t), err |-> "nil"])

(***************************************************************************)
(* The block tree. Targets are counted in units of RootTarget/8000 and    *)
(* the weight of a block, 1/target, in units of 1/(WeightUnit targets).   *)
(* Depth is the accumulated weight of a chain: RootDepth, the depth of    *)
(* the chain that holds the genesis block only, is no weight at all.      *)
(***************************************************************************)
RootTarget == 8000
RootDepth == 0
WeightUnit == 10000 * 1000

Weight(target) == WeightUnit \div target

\* CreateGenesisState (lines 415-465).
GenesisNode ==
    [Block |-> GenesisBlock, Height |-> 0,
     RecentTimestamps |-> [i \in 1..MedianTimestampWindow |-> GenesisTimestamp],
     Target |-> RootTarget, Depth |-> RootDepth, Children |-> << >>]

GenesisSubsidyOutput == [Value |-> CalculateCoinbase(0), SpendHash |-> GenesisAddress]

\* CreateGenesisState without the entry of the genesis block in currentPath.
CreateGenesisState_NoPath ==
    [s |-> [badBlocks |-> {},
            blockMap |-> Put(EmptyMap, GenesisID, GenesisNode),
            missingParents |-> EmptyMap,
            transactionPoolOutputs |-> EmptyMap,
            transactionPoolProofs |-> EmptyMap,
            transactionList |-> EmptyMap,
            currentBlockID |-> GenesisID,
            currentPath |-> EmptyMap,
            unspentOutputs |-> Put(EmptyMap, SubsidyID(GenesisBlock), GenesisSubsidyOutput),
            openContracts |-> EmptyMap,
            spentOutputs |-> EmptyMap,
            consensusSubscriptions |-> << >>,
            panic |-> ""],
     diffs |-> <<OutputDiff(TRUE, SubsidyID(GenesisBlock), GenesisSubsidyOutput)>>]

CreateGenesisState ==
    [s |-> [badBlocks |-> {},
            blockMap |-> Put(EmptyMap, GenesisID, GenesisNode),
            missingParents |-> EmptyMap,
            transactionPoolOutputs |-> EmptyMap,
            transactionPoolProofs |-> EmptyMap,
            transactionList |-> EmptyMap,
            currentBlockID |-> GenesisID,
            currentPath |-> Put(EmptyMap, 0, GenesisID),
            unspentOutputs |-> Put(EmptyMap, SubsidyID(GenesisBlock), GenesisSubsidyOutput),
            openContracts |-> EmptyMap,
            spentOutputs |-> EmptyMap,
            consensusSubscriptions |-> << >>,
            panic |-> ""],
     diffs |-> <<OutputDiff(TRUE, SubsidyID(GenesisBlock), GenesisSubsidyOutput)>>]

\* handleOrphanBlock without the lookup of the orphan among the known
\* children of its parent.
handleOrphanBlock_AlwaysUnknown(s, b) ==
    IF Has(s.blockMap, b.ParentBlockID)
    THEN [s |-> Panic(s, "Incorrect use of handleOrphanBlock"), err |-> "panic"]
    ELSE IF ~Has(s.missingParents, b.ParentBlockID)
    THEN [s |-> [s EXCEPT !.missingParents =
                    Put(@, b.ParentBlockID, Put(EmptyMap, BlockID(b), b))],
          err |-> "UnknownOrphanErr"]
    ELSE [s |-> [s EXCEPT !.missingParents[b.ParentBlockID] = Put(@, BlockID(b), b)],
          err |-> "UnknownOrphanErr"]

\* handleOrphanBlock (lines 724-749): always returns an error.
handleOrphanBlock(s, b) ==
    IF Has(s.blockMap, b.ParentBlockID)
    THEN [s |-> Panic(s, "Incorrect use of handleOrphanBlock"), err |-> "panic"]
    ELSE IF ~Has(s.missingParents, b.ParentBlockID)
    THEN [s |-> [s EXCEPT !.missingParents =
                    Put(@, b.ParentBlockID, Put(EmptyMap, BlockID(b), b))],
          err |-> "UnknownOrphanErr"]
    ELSE IF Has(s.missingParents[b.ParentBlockID], BlockID(b))
    THEN [s |-> s, err |-> "KnownOrphanErr"]
    ELSE [s |-> [s EXCEPT !.missingParents[b.ParentBlockID] = Put(@, BlockID(b), b)],
          err |-> "UnknownOrphanErr"]

\* BlockNode.earliestChildTimestamp (lines 761-772): element
\* MedianTimestampWindow/2 (counted from 0) of the sorted timestamps.
earliestChildTimestamp(bn) ==
    LET ts == bn.RecentTimestamps
        k == MedianTimestampWindow \div 2
    IN CHOOSE v \in Range(ts) :
          /\ Cardinality({i \in DOMAIN ts : ts[i] < v}) <= k
          /\ Cardinality({i \in DOMAIN ts : ts[i] <= v}) > k

\* Block.CheckTarget(target): the ID, read as a number, is at most the
\* target. The number an ID reads as is decided by the nonce the miner
\* found: nonce n stands for an ID that reads as n targets of unit size.
CheckTarget(b, target) == b.Nonce <= target

\* len(encoding.Marshal(b)): 8-byte length prefixes and fixed-width fields.
EncodedLen(b) == 128 + 512 * Len(b.Transactions)

validHeader_NoFutureCheck(s, b, now) ==
    LET parent == s.blockMap[b.ParentBlockID] IN
    IF ~CheckTarget(b, parent.Target) THEN "block does not meet target"
    ELSE IF earliestChildTimestamp(parent) > b.Timestamp
    THEN "timestamp invalid for being in the past"
    ELSE IF EncodedLen(b) > BlockSizeLimit THEN "Block is too large, will not be accepted."
    ELSE IF b.MerkleRoot # TransactionMerkleRoot(b.Transactions)
    THEN "merkle root does not match transactions sent."
    ELSE "nil"

validHeader_StrictWindow(s, b, now) ==
    LET parent == s.blockMap[b.ParentBlockID] IN
    IF ~CheckTarget(b, parent.Target) THEN "block does not meet target"
    ELSE IF earliestChildTimestamp(parent) >= b.Timestamp
    THEN "timestamp invalid for being in the past"
    ELSE IF b.Timestamp - now > FutureThreshold THEN "FutureBlockErr"
    ELSE IF EncodedLen(b) > BlockSizeLimit THEN "Block is too large, will not be accepted."
    ELSE IF b.MerkleRoot # TransactionMerkleRoot(b.Transactions)
    THEN "merkle root does not match transactions sent."
    ELSE "nil"

\* validHeader (lines 776-812), with now = time.Now().Unix().
validHeader(s, b, now) ==
    LET parent == s.blockMap[b.ParentBlockID] IN
    IF ~CheckTarget(b, parent.Target) THEN "block does not meet target"
    ELSE IF earliestChildTimestamp(parent) > b.Timestamp
    THEN "timestamp invalid for being in the past"
    ELSE IF b.Timestamp - now > FutureThreshold THEN "FutureBlockErr"
    ELSE IF EncodedLen(b) > BlockSizeLimit THEN "Block is too large, will not be accepted."
    ELSE IF b.MerkleRoot # TransactionMerkleRoot(b.Transactions)
    THEN "merkle root does not match transactions sent."
    ELSE "nil"

\* The ancestor of node id at height h.
RECURSIVE AncestorAt(_, _, _)
AncestorAt(s, id, h) ==
    IF s.blockMap[id].Height <= h THEN s.blockMap[id]
    ELSE AncestorAt(s, s.blockMap[id].Block.ParentBlockID, h)

\* childTarget: the parent's target times the ratio of the time the last
\* window of blocks took to the time it should have taken, the ratio
\* clamped to [1/MaxAdjustmentUp, 1/MaxAdjustmentDown] = [100/103, 100/97].
childTarget(s, parentNode, newNode) ==
    LET window == Min(newNode.Height, TargetWindow)
        ancestor == AncestorAt(s, BlockID(parentNode.Block), newNode.Height - window)
        actual == newNode.Block.Timestamp - ancestor.Block.Timestamp
        expected == window * BlockFrequency
    IN IF actual * 103 < expected * 100 THEN (parentNode.Target * 100) \div 103
       ELSE IF actual * 97 > expected * 100 THEN (parentNode.Target * 100) \div 97
       ELSE (parentNode.Target * actual) \div expected

\* BlockNode.childDepth: the depth of the node plus the weight of a block
\* that meets the node's target.
childDepth(parentNode) == parentNode.Depth + Weight(parentNode.Target)

addBlockToTree_NoShift(s, b) ==
    LET parentNode == s.blockMap[b.ParentBlockID]
        n0 == [Block |-> b, Height |-> parentNode.Height + 1,
               RecentTimestamps |->
                   [i \in 1..MedianTimestampWindow |->
                       IF i = MedianTimestampWindow THEN b.Timestamp
                       ELSE parentNode.RecentTimestamps[i]],
               Target |-> 0, Depth |-> 0, Children |-> << >>]
        newNode == [n0 EXCEPT !.Target = childTarget(s, parentNode, n0),
                              !.Depth = childDepth(parentNode)]
    IN [s |-> [s EXCEPT !.blockMap =
                  Put([@ EXCEPT ![b.ParentBlockID].Children = Append(@, BlockID(b))],
                      BlockID(b), newNode)],
        id |-> BlockID(b)]

\* addBlockToTree (lines 816-839): [s |-> state after, id |-> the new node].
addBlockToTree(s, b) ==
    LET parentNode == s.blockMap[b.ParentBlockID]
        n0 == [Block |-> b, Height |-> parentNode.Height + 1,
               RecentTimestamps |->
                   [i \in 1..MedianTimestampWindow |->
                       IF i = MedianTimestampWindow THEN b.Timestamp
                       ELSE parentNode.RecentTimestamps[i + 1]],
               Target |-> 0, Depth |-> 0, Children |-> << >>]
        newNode == [n0 EXCEPT !.Target = childTarget(s, parentNode, n0),
                              !.Depth = childDepth(parentNode)]
    IN [s |-> [s EXCEPT !.blockMap =
                  Put([@ EXCEPT ![b.ParentBlockID].Children = Append(@, BlockID(b))],
                      BlockID(b), newNode)],
        id |-> BlockID(b)]

(***************************************************************************)
(* Applying and inverting a block; fork choice and reorganization.        *)
(*                                                                         *)
(* Contract maintenance (missed storage proofs) acts when a challenge     *)
(* window of an open contract closes; no window of a contract that starts *)
(* at ContractStart closes at a height the model reaches.                 *)
(***************************************************************************)
MinerFeesOf(txns) == SumSeq([i \in DOMAIN txns |-> SumSeq(txns[i].MinerFees)])

\* The transactions of a block from transaction i on: validate, then apply.
RECURSIVE ApplyTransactions(_, _, _, _)
ApplyTransactions(s, txns, i, diffs) ==
    IF i > Len(txns) THEN [s |-> s, diffs |-> diffs, err |-> "nil"]
    ELSE Bind(validTransaction(s, txns[i]), LAMBDA e :
         IF e = "panic"
         THEN [s |-> Panic(s, "nil pointer dereference"), diffs |-> diffs, err |-> "panic"]
         ELSE IF e # "nil" THEN [s |-> s, diffs |-> diffs, err |-> e]
         ELSE Bind(applyTransaction(s, txns[i]), LAMBDA a :
                  ApplyTransactions(a.s, txns, i + 1, diffs \o a.diffs)))

\* applyBlock: the subsidy output, the transactions in order, then the block
\* becomes the tip. A block with an invalid transaction leaves the state
\* as it was.
applyBlock(s, b) ==
    Bind([Value |-> CalculateCoinbase(s.blockMap[BlockID(b)].Height)
                        + MinerFeesOf(b.Transactions),
          SpendHash |-> b.MinerAddress], LAMBDA subsidy :
    Bind(ApplyTransactions([s EXCEPT !.unspentOutputs = Put(@, SubsidyID(b), subsidy)],
                           b.Transactions, 1,
                           <<OutputDiff(TRUE, SubsidyID(b), subsidy)>>), LAMBDA a :
       IF a.err = "panic" THEN [s |-> Panic(s, a.s.panic), diffs |-> << >>, err |-> "panic"]
       ELSE IF a.err # "nil" THEN [s |-> s, diffs |-> << >>, err |-> a.err]
       ELSE [s |-> [a.s EXCEPT !.currentBlockID = BlockID(b),
                               !.currentPath = Put(@, s.blockMap[BlockID(b)].Height,
                                                   BlockID(b))],
             diffs |-> a.diffs, err |-> "nil"]))

\* The transactions of a block from transaction i down to the first.
RECURSIVE InvertTransactions(_, _, _, _)
InvertTransactions(s, txns, i, diffs) ==
    IF i < 1 \/ s.panic # "" THEN [s |-> s, diffs |-> diffs]
    ELSE Bind(invertTransaction(s, txns[i]), LAMBDA a :
             InvertTransactions(a.s, txns, i - 1, diffs \o a.diffs))

\* invertRecentBlock: the transactions of the tip in reverse order, then
\* the subsidy output; the parent becomes the tip.
invertRecentBlock(s) ==
    Bind(currentBlockNode(s), LAMBDA bn :
    Bind(InvertTransactions(s, bn.Block.Transactions, Len(bn.Block.Transactions), << >>),
         LAMBDA a :
       IF a.s.panic # "" THEN a
       ELSE IF ~Has(a.s.unspentOutputs, SubsidyID(bn.Block))
       THEN [s |-> Panic(a.s, "output not in utxo set"), diffs |-> a.diffs]
       ELSE [s |-> [a.s EXCEPT !.unspentOutputs = Del(@, SubsidyID(bn.Block)),
                               !.currentPath = Del(@, bn.Height),
                               !.currentBlockID = bn.Block.ParentBlockID],
             diffs |-> Append(a.diffs,
                              OutputDiff(FALSE, SubsidyID(bn.Block),
                                         a.s.unspentOutputs[SubsidyID(bn.Block)]))]))

\* SurpassThreshold = 5/100 (line 710), in hundredths.
SurpassThreshold == 5

\* heavierFork: the new node is deeper than the tip by more than
\* SurpassThreshold of the weight of one block at the current target.
heavierFork(s, newNode) ==
    newNode.Depth * 100 >
        currentBlockNode(s).Depth * 100 + SurpassThreshold * Weight(currentBlockNode(s).Target)

\* The IDs of the branch that ends in node id, from the child of the last
\* node on the current path upwards.
RECURSIVE Backtrack(_, _)
Backtrack(s, id) ==
    LET n == s.blockMap[id] IN
    IF Has(s.currentPath, n.Height) /\ s.currentPath[n.Height] = id THEN << >>
    ELSE Append(Backtrack(s, n.Block.ParentBlockID), id)

\* Invert the tip until block id is the tip.
RECURSIVE RewindTo(_, _, _, _)
RewindTo(s, id, rewound, diffs) ==
    IF s.currentBlockID = id \/ s.panic # ""
    THEN [s |-> s, rewound |-> rewound, diffs |-> diffs]
    ELSE Bind(invertRecentBlock(s), LAMBDA a :
             RewindTo(a.s, id, Append(rewound, currentBlockNode(s).Block), diffs \o a.diffs))

\* Apply the blocks of a branch in order, from block i on.
RECURSIVE ApplyBranch(_, _, _, _, _)
ApplyBranch(s, branch, i, applied, diffs) ==
    IF i > Len(branch)
    THEN [s |-> s, applied |-> applied, diffs |-> diffs, err |-> "nil", bad |-> GenesisID]
    ELSE Bind(applyBlock(s, s.blockMap[branch[i]].Block), LAMBDA a :
         IF a.err # "nil"
         THEN [s |-> a.s, applied |-> applied, diffs |-> diffs, err |-> a.err, bad |-> branch[i]]
         ELSE ApplyBranch(a.s, branch, i + 1,
                          Append(applied, s.blockMap[branch[i]].Block), diffs \o a.diffs))

\* A node and all its descendants.
RECURSIVE Descendants(_, _)
Descendants(s, id) ==
    {id} \cup UNION {Descendants(s, s.blockMap[id].Children[i]) :
                        i \in DOMAIN s.blockMap[id].Children}

\* forkBlockchain when a block of the new branch does not apply: invert
\* what was applied of it and apply the old branch again.
ReturnToBranch(s, marked, parent, oldBranch, err) ==
    Bind(RewindTo(marked, parent, << >>, << >>), LAMBDA back :
    Bind(ApplyBranch(back.s, oldBranch, 1, << >>, << >>), LAMBDA again :
       IF back.s.panic # "" \/ again.s.panic # "" \/ again.err # "nil"
       THEN [s |-> Panic(s, "cannot return to the old branch"),
             rewound |-> << >>, applied |-> << >>, diffs |-> << >>, err |-> "panic"]
       ELSE [s |-> again.s, rewound |-> << >>, applied |-> << >>,
             diffs |-> << >>, err |-> err]))
\* The message a subscriber receives for one change of the active chain.
ConsensusChange(rewound, applied, diffs) ==
    [RewoundBlocks |-> rewound, AppliedBlocks |-> applied, OutputDiffs |-> diffs]

\* Registers one more subscriber: a channel, modelled by the sequence of the
\* messages sent on it so far.
ConsensusSubscribe(s) ==
    [s EXCEPT !.consensusSubscriptions = Append(@, << >>)]

\* Sends one message to every registered subscriber, in registration order.
notifySubscribers(s, cc) ==
    [s EXCEPT !.consensusSubscriptions = [i \in DOMAIN @ |-> Append(@[i], cc)]]

\* forkBlockchain: rewind to the common ancestor and apply the new branch;
\* if a block of the new branch does not apply, mark it and its descendants
\* bad, and return to the old branch.
forkBlockchain(s, newID) ==
    Bind(Backtrack(s, newID), LAMBDA branch :
    Bind(s.blockMap[branch[1]].Block.ParentBlockID, LAMBDA parent :
    Bind(RewindTo(s, parent, << >>, << >>), LAMBDA r :
    Bind(ApplyBranch(r.s, branch, 1, << >>, r.diffs), LAMBDA a :
       IF r.s.panic # "" \/ a.s.panic # ""
       THEN [s |-> Panic(s, IF r.s.panic # "" THEN r.s.panic ELSE a.s.panic),
             rewound |-> << >>, applied |-> << >>, diffs |-> << >>, err |-> "panic"]
       ELSE IF a.err = "nil"
       THEN [s |-> notifySubscribers(a.s, ConsensusChange(r.rewound, a.applied, a.diffs)),
             rewound |-> r.rewound, applied |-> a.applied,
             diffs |-> a.diffs, err |-> "nil"]
       ELSE ReturnToBranch(s, [a.s EXCEPT !.badBlocks = @ \cup Descendants(a.s, a.bad)],
                           parent,
                           Reverse([i \in DOMAIN r.rewound |-> BlockID(r.rewound[i])]),
                           a.err)))))

NoBlocks(s, e) == [s |-> s, rewound |-> << >>, applied |-> << >>, diffs |-> << >>, err |-> e]

AcceptBlock_NoKnownCheck(s, b, now) ==
    IF BlockID(b) \in s.badBlocks THEN NoBlocks(s, "block is known to be invalid")
    ELSE IF ~Has(s.blockMap, b.ParentBlockID)
    THEN Bind(handleOrphanBlock(s, b), LAMBDA o : NoBlocks(o.s, o.err))
    ELSE Bind(validHeader(s, b, now), LAMBDA e :
         IF e # "nil" THEN NoBlocks(s, e)
         ELSE Bind(addBlockToTree(s, b), LAMBDA t :
              IF heavierFork(t.s, t.s.blockMap[t.id])
              THEN forkBlockchain(t.s, t.id)
              ELSE NoBlocks(t.s, "nil")))

AcceptBlock_NotifyOnAttach(s, b, now) ==
    IF BlockID(b) \in s.badBlocks THEN NoBlocks(s, "block is known to be invalid")
    ELSE IF Has(s.blockMap, BlockID(b)) THEN NoBlocks(s, "BlockKnownErr")
    ELSE IF ~Has(s.blockMap, b.ParentBlockID)
    THEN Bind(handleOrphanBlock(s, b), LAMBDA o : NoBlocks(o.s, o.err))
    ELSE Bind(validHeader(s, b, now), LAMBDA e :
         IF e # "nil" THEN NoBlocks(s, e)
         ELSE Bind(addBlockToTree(s, b), LAMBDA t :
              IF heavierFork(t.s, t.s.blockMap[t.id])
              THEN forkBlockchain(t.s, t.id)
              ELSE NoBlocks(notifySubscribers(t.s, ConsensusChange(<< >>, << >>, << >>)),
                            "nil")))

\* AcceptBlock without the switch to a heavier fork.
AcceptBlock_AttachOnly(s, b, now) ==
    IF BlockID(b) \in s.badBlocks THEN NoBlocks(s, "block is known to be invalid")
    ELSE IF Has(s.blockMap, BlockID(b)) THEN NoBlocks(s, "BlockKnownErr")
    ELSE IF ~Has(s.blockMap, b.ParentBlockID)
    THEN Bind(handleOrphanBlock(s, b), LAMBDA o : NoBlocks(o.s, o.err))
    ELSE Bind(validHeader(s, b, now), LAMBDA e :
         IF e # "nil" THEN NoBlocks(s, e)
         ELSE NoBlocks(addBlockToTree(s, b).s, "nil"))

\* AcceptBlock that switches to any new node deeper than the tip.
AcceptBlock_AnyDeeper(s, b, now) ==
    IF BlockID(b) \in s.badBlocks THEN NoBlocks(s, "block is known to be invalid")
    ELSE IF Has(s.blockMap, BlockID(b)) THEN NoBlocks(s, "BlockKnownErr")
    ELSE IF ~Has(s.blockMap, b.ParentBlockID)
    THEN Bind(handleOrphanBlock(s, b), LAMBDA o : NoBlocks(o.s, o.err))
    ELSE Bind(validHeader(s, b, now), LAMBDA e :
         IF e # "nil" THEN NoBlocks(s, e)
         ELSE Bind(addBlockToTree(s, b), LAMBDA t :
              IF t.s.blockMap[t.id].Depth > currentBlockNode(t.s).Depth
              THEN forkBlockchain(t.s, t.id)
              ELSE NoBlocks(t.s, "nil")))

\* AcceptBlock with the results of forkBlockchain assigned to variables
\* that shadow the named results: the lists are returned empty.
AcceptBlock_Shadowed(s, b, now) ==
    IF BlockID(b) \in s.badBlocks THEN NoBlocks(s, "block is known to be invalid")
    ELSE IF Has(s.blockMap, BlockID(b)) THEN NoBlocks(s, "BlockKnownErr")
    ELSE IF ~Has(s.blockMap, b.ParentBlockID)
    THEN Bind(handleOrphanBlock(s, b), LAMBDA o : NoBlocks(o.s, o.err))
    ELSE Bind(validHeader(s, b, now), LAMBDA e :
         IF e # "nil" THEN NoBlocks(s, e)
         ELSE Bind(addBlockToTree(s, b), LAMBDA t :
              IF heavierFork(t.s, t.s.blockMap[t.id])
              THEN Bind(forkBlockchain(t.s, t.id), LAMBDA f : NoBlocks(f.s, f.err))
              ELSE NoBlocks(t.s, "nil")))

\* AcceptBlock (lines 843-889), with now = time.Now().Unix(). The sanity
\* check currentPathCheck changes nothing.
AcceptBlock(s, b, now) ==
    IF BlockID(b) \in s.badBlocks THEN NoBlocks(s, "block is known to be invalid")
    ELSE IF Has(s.blockMap, BlockID(b)) THEN NoBlocks(s, "BlockKnownErr")
    ELSE IF ~Has(s.blockMap, b.ParentBlockID)
    THEN Bind(handleOrphanBlock(s, b), LAMBDA o : NoBlocks(o.s, o.err))
    ELSE Bind(validHeader(s, b, now), LAMBDA e :
         IF e # "nil" THEN NoBlocks(s, e)
         ELSE Bind(addBlockToTree(s, b), LAMBDA t :
              IF heavierFork(t.s, t.s.blockMap[t.id])
              THEN forkBlockchain(t.s, t.id)
              ELSE NoBlocks(t.s, "nil")))

\* stateHash (lines 628-678): the Merkle root of the leaves, as the list of
\* what the leaves hash.
stateHash(s) ==
    <<s.currentBlockID,
      height(s),
      currentBlockNode(s).Target,
      currentBlockNode(s).Depth,
      earliestChildTimestamp(currentBlockNode(s)),
      BlockID(s.blockMap[GenesisID].Block),
      [i \in 1..Cardinality(DOMAIN s.currentPath) |->
          IF Has(s.currentPath, i - 1) THEN s.currentPath[i - 1] ELSE << >>],
      [i \in DOMAIN SortedSeq(DOMAIN s.unspentOutputs) |->
          s.unspentOutputs[SortedSeq(DOMAIN s.unspentOutputs)[i]]],
      [i \in DOMAIN SortedSeq(DOMAIN s.openContracts) |->
          s.openContracts[SortedSeq(DOMAIN s.openContracts)[i]]]>>

(***************************************************************************)
(* The inputs of the model: keys, spend conditions, transactions, blocks. *)
(***************************************************************************)
MaxBlocks == 3
MaxBlockTxns == 1
MaxPool == 1
MaxOrphans == 1
ContractStart == 100

\* One-of-one conditions of the miner's wallet, and its address.
SCa == [TimeLock |-> 0, NumSignatures |-> 1, PublicKeys |-> <<"k1">>]

AddrA == CoinAddress(SCa)

Sig(o, idx, key) == [InputID |-> o, PublicKeyIndex |-> idx, TimeLock |-> 0, Signature |-> key]

Txn(ins, outs, fees, fcs, sps, sigs) ==
    [Inputs |-> ins, Outputs |-> outs, MinerFees |-> fees,
     FileContracts |-> fcs, StorageProofs |-> sps, Signatures |-> sigs]

In(o, sc) == [OutputID |-> o, SpendConditions |-> sc]

Out(v, a) == [Value |-> v, SpendHash |-> a]

\* A transaction without inputs that creates an output of value 0.
TZ == Txn(<< >>, <<Out(0, AddrA)>>, << >>, << >>, << >>, << >>)

\* The wallet spends output o of value v: all of it less a fee of 10.
Pay(o, v) ==
    IF v >= 10
    THEN Txn(<<In(o, SCa)>>, <<Out(v - 10, AddrA)>>, <<10>>, << >>, << >>, <<Sig(o, 0, "k1")>>)
    ELSE Txn(<<In(o, SCa)>>, <<Out(v, AddrA)>>, << >>, << >>, << >>, <<Sig(o, 0, "k1")>>)

\* o is spent and nothing is paid out: the inputs exceed the outputs.
Burn(o, v) == Txn(<<In(o, SCa)>>, << >>, << >>, << >>, << >>, <<Sig(o, 0, "k1")>>)

\* o is split into two outputs.
Split(o, v) ==
    Txn(<<In(o, SCa)>>, <<Out(v \div 2, AddrA), Out(v - (v \div 2), AddrA)>>,
        << >>, << >>, << >>, <<Sig(o, 0, "k1")>>)

\* o funds a file contract.
Contract(o, v) ==
    Txn(<<In(o, SCa)>>, << >>, << >>,
        <<[ContractFund |-> v, Start |-> ContractStart, End |-> ContractStart + 1]>>,
        << >>, <<Sig(o, 0, "k1")>>)

\* The outputs exceed the inputs.
Deficit(o, v) ==
    Txn(<<In(o, SCa)>>, <<Out(v + 1, AddrA)>>, << >>, << >>, << >>, <<Sig(o, 0, "k1")>>)

\* The outputs the wallet can spend: unspent on the active chain and paid
\* to its address.
KnownOutputs(s) ==
    [id \in {o \in DOMAIN s.unspentOutputs : s.unspentOutputs[o].SpendHash = AddrA} |->
        s.unspentOutputs[id]]

\* The transactions miners put into blocks; the genesis subsidy is paid to
\* the zero address and cannot be spent.
BlockTxChoices(s) ==
    LET k == KnownOutputs(s) IN
    {TZ, Pay(SubsidyID(GenesisBlock), CalculateCoinbase(0))}
    \cup {Pay(o, k[o].Value) : o \in DOMAIN k}
    \cup {Burn(o, k[o].Value) : o \in DOMAIN k}
    \cup {Contract(o, k[o].Value) : o \in DOMAIN k}

\* The transactions submitted to the pool.
TxChoices(s) ==
    LET k == KnownOutputs(s) IN
    {TZ}
    \cup {Pay(o, k[o].Value) : o \in DOMAIN k}
    \cup {Split(o, k[o].Value) : o \in DOMAIN k}
    \cup {Deficit(o, k[o].Value) : o \in DOMAIN k}

RECURSIVE SeqsUpTo(_, _)
SeqsUpTo(S, n) ==
    IF n = 0 THEN {<< >>}
    ELSE SeqsUpTo(S, n - 1) \cup
         {Append(q, x) : q \in {r \in SeqsUpTo(S, n - 1) : Len(r) = n - 1}, x \in S}

\* A parent no node has: its child is an orphan.
OrphanParent == <<[Nonce |-> 7, Timestamp |-> GenesisTimestamp,
                   MinerAddress |-> GenesisAddress, MerkleRoot |-> << >>]>>

Blk(parent, nonce, ts, txns, root) ==
    [ParentBlockID |-> parent, Nonce |-> nonce, Timestamp |-> ts,
     MinerAddress |-> AddrA, MerkleRoot |-> root, Transactions |-> txns]

\* Blocks with a valid header on a known parent (found quickly, with
\* transactions, or slowly, without), an orphan, and blocks whose header
\* fails one check of validHeader.
BlockChoices(s) ==
    {Blk(p, 0, GenesisTimestamp, txns, TransactionMerkleRoot(txns)) :
        p \in DOMAIN s.blockMap, txns \in SeqsUpTo(BlockTxChoices(s), MaxBlockTxns)}
    \cup {Blk(p, 0, GenesisTimestamp + 30, << >>, << >>) : p \in DOMAIN s.blockMap}
    \cup {Blk(OrphanParent, 0, GenesisTimestamp, << >>, << >>)}
    \cup {Blk(p, 1000000, GenesisTimestamp, << >>, << >>) : p \in DOMAIN s.blockMap}
    \cup {Blk(p, 0, GenesisTimestamp - 1, << >>, << >>) : p \in DOMAIN s.blockMap}
    \cup {Blk(p, 0, GenesisTimestamp + FutureThreshold + 1, << >>, << >>) : p \in DOMAIN s.blockMap}
    \cup {Blk(p, 0, GenesisTimestamp, << >>, <<TZ>>) : p \in DOMAIN s.blockMap}

\* time.Now().Unix() as the engine reads it.
Clock == {GenesisTimestamp}

Orphans(s) == UNION {DOMAIN s.missingParents[p] : p \in DOMAIN s.missingParents}

(***************************************************************************)
(* The state machine. state is the engine; callerOutputs and replayClean  *)
(* belong to a caller that replays the output diffs it is handed; peer is *)
(* a second engine; txn and ret are the transaction and the result of the *)
(* last call to ValidTransaction or AcceptTransaction.                    *)
(***************************************************************************)
VARIABLES state, peer, callerOutputs, replayClean, txn, ret

vars == <<state, peer, callerOutputs, replayClean, txn, ret>>

\* The caller replays diffs: New inserts the output under its ID, otherwise
\* the ID is removed.
RECURSIVE Replay(_, _)
Replay(m, diffs) ==
    IF diffs = << >> THEN m
    ELSE Replay(IF Head(diffs).New THEN Put(m, Head(diffs).ID, Head(diffs).Output)
                ELSE Del(m, Head(diffs).ID),
                Tail(diffs))

\* Every removal names an output the caller holds, every insertion one it
\* does not hold.
RECURSIVE ReplayConsistent(_, _)
ReplayConsistent(m, diffs) ==
    IF diffs = << >> THEN TRUE
    ELSE /\ Head(diffs).New = ~Has(m, Head(diffs).ID)
         /\ ReplayConsistent(Replay(m, <<Head(diffs)>>), Tail(diffs))

NoCall == [op |-> "none", err |-> "nil"]

Init ==
    /\ state = CreateGenesisState.s
    /\ peer = CreateGenesisState.s
    /\ callerOutputs = Replay(EmptyMap, CreateGenesisState.diffs)
    /\ replayClean = ReplayConsistent(EmptyMap, CreateGenesisState.diffs)
    /\ txn = TZ
    /\ ret = NoCall

\* The room the bounds leave for block b.
BlockFits(s, b) ==
    \/ Has(s.blockMap, BlockID(b))
    \/ BlockID(b) \in Orphans(s)
    \/ /\ Has(s.blockMap, b.ParentBlockID)
       /\ Cardinality(DOMAIN s.blockMap) <= MaxBlocks
    \/ /\ ~Has(s.blockMap, b.ParentBlockID)
       /\ Cardinality(Orphans(s)) < MaxOrphans

\* A block arrives (Core.AcceptBlock calls State.AcceptBlock); the caller
\* replays the diffs of a successful call.
SubmitBlock ==
    /\ state.panic = ""
    /\ \E b \in BlockChoices(state), now \in Clock :
          /\ BlockFits(state, b)
          /\ \E r \in {AcceptBlock(state, b, now)} :
                /\ state' = r.s
                /\ callerOutputs' = IF r.err = "nil" THEN Replay(callerOutputs, r.diffs)
                                    ELSE callerOutputs
                /\ replayClean' = IF r.err = "nil"
                                  THEN replayClean /\ ReplayConsistent(callerOutputs, r.diffs)
                                  ELSE replayClean
    /\ UNCHANGED <<peer, txn, ret>>

\* A transaction arrives.
SubmitTransaction ==
    /\ state.panic = ""
    /\ \E t \in TxChoices(state) :
          /\ Cardinality(PoolTransactions(state)) < MaxPool \/ transactionPoolConflict(state, t)
          /\ state' = AcceptTransaction(state, t).s
    /\ UNCHANGED <<peer, callerOutputs, replayClean, txn, ret>>

Next == SubmitBlock \/ SubmitTransaction

Spec == Init /\ [][Next]_vars

(***************************************************************************)
(* Validation on its own: the engine has accepted a chain of blocks whose *)
(* miners are paid under several spend conditions, and ValidTransaction   *)
(* (lines 284-288) is called with one transaction.                        *)
(***************************************************************************)
MaxHeight == 3
MaxSigs == 3

\* Two-of-two conditions, and one-of-one conditions locked until MaxHeight.
SCm == [TimeLock |-> 0, NumSignatures |-> 2, PublicKeys |-> <<"k1", "k2">>]

SCt == [TimeLock |-> MaxHeight, NumSignatures |-> 1, PublicKeys |-> <<"k1">>]

Conds == {SCa, SCm, SCt}

\* The miner of the block at height h is paid under Miner(h).
Miner(h) == IF h % 3 = 1 THEN SCm ELSE IF h % 3 = 2 THEN SCt ELSE SCa

MinedBy(parent, sc) ==
    [ParentBlockID |-> parent, Nonce |-> 0, Timestamp |-> GenesisTimestamp,
     MinerAddress |-> CoinAddress(sc), MerkleRoot |-> << >>, Transactions |-> << >>]

\* The engine after it accepted n blocks without transactions, one on top
\* of the other.
RECURSIVE Snapshot(_)
Snapshot(n) ==
    IF n = 0 THEN CreateGenesisState.s
    ELSE Bind(Snapshot(n - 1), LAMBDA s :
              AcceptBlock(s, MinedBy(s.currentBlockID, Miner(n)), GenesisTimestamp).s)

Snapshots == {Snapshot(n) : n \in 1..MaxHeight}

\* An ID no output has.
MissingID == OutputID(TZ, 1)

\* Every signature the conditions sc ask for, over input o.
SignAll(o, sc) == [i \in 1..sc.NumSignatures |-> Sig(o, i - 1, sc.PublicKeys[i])]

RECURSIVE Concat(_)
Concat(qs) == IF qs = << >> THEN << >> ELSE Head(qs) \o Concat(Tail(qs))

\* The conditions the output o of s is paid under (none for the genesis
\* subsidy).
CondsOf(s, o) == {sc \in Conds : CoinAddress(sc) = s.unspentOutputs[o].SpendHash}

\* One or two inputs, of any output under any conditions, fully signed, and
\* one output that takes their whole value.
InputChoices(s) ==
    LET one == {In(o, sc) : o \in (DOMAIN s.unspentOutputs) \cup {MissingID}, sc \in Conds}
        ins == {<<a>> : a \in one} \cup {<<a, b>> : a \in one, b \in one}
    IN {Txn(q,
            <<Out(SumSeq([i \in DOMAIN q |-> Lookup(s.unspentOutputs, q[i].OutputID).Value]),
                  AddrA)>>,
            << >>, << >>, << >>,
            Concat([i \in DOMAIN q |-> SignAll(q[i].OutputID, q[i].SpendConditions)])) :
        q \in ins}

\* One input, rightly signed, whose value v is paid out entirely, with a
\* coin missing or with a coin too many: to an output, to the miner, or to
\* a file contract.
ValueChoices(s) ==
    UNION {UNION {
        LET v == s.unspentOutputs[o].Value
            ins == <<In(o, sc)>>
            sigs == SignAll(o, sc)
        IN UNION {{Txn(ins, <<Out(v + d, AddrA)>>, << >>, << >>, << >>, sigs),
                   Txn(ins, << >>, <<v + d>>, << >>, << >>, sigs),
                   Txn(ins, <<Out(v - 10, AddrA)>>, <<10 + d>>, << >>, << >>, sigs),
                   Txn(ins, <<Out(10, AddrA)>>, << >>,
                       <<[ContractFund |-> v - 10 + d, Start |-> ContractStart,
                          End |-> ContractStart + 1]>>, << >>, sigs)} :
                  d \in {-1, 0, 1}} :
        sc \in CondsOf(s, o)} : o \in DOMAIN s.unspentOutputs}

\* The signatures a transaction may carry for input o: made with either
\* key for either key index, timelocked, or for an input it does not have.
SigChoices(o) ==
    {Sig(o, idx, key) : idx \in {0, 1}, key \in {"k1", "k2"}}
    \cup {[Sig(o, 0, "k1") EXCEPT !.TimeLock = MaxHeight], Sig(MissingID, 0, "k1")}

\* One input under the right conditions, its value paid out, and up to
\* MaxSigs signatures.
SignatureChoices(s) ==
    UNION {UNION {
        {Txn(<<In(o, sc)>>, <<Out(s.unspentOutputs[o].Value, AddrA)>>,
             << >>, << >>, << >>, sigs) : sigs \in SeqsUpTo(SigChoices(o), MaxSigs)} :
        sc \in CondsOf(s, o)} : o \in DOMAIN s.unspentOutputs}

ValidationChoices(s) == InputChoices(s) \cup ValueChoices(s) \cup SignatureChoices(s)

\* ValidTransaction (lines 284-288): a panic of validTransaction ends the
\* process.
ValidTransaction(s, t) ==
    Bind(validTransaction(s, t), LAMBDA e :
        [s |-> IF e = "panic" THEN Panic(s, "runtime error") ELSE s, err |-> e])

VInit ==
    /\ state \in Snapshots
    /\ peer = CreateGenesisState.s
    /\ callerOutputs = EmptyMap
    /\ replayClean = TRUE
    /\ txn \in ValidationChoices(state)
    /\ ret = NoCall

\* The transaction is validated.
Validate ==
    /\ ret = NoCall
    /\ \E r \in {ValidTransaction(state, txn)} :
          /\ state' = r.s
          /\ ret' = [op |-> "ValidTransaction", err |-> r.err]
    /\ UNCHANGED <<peer, callerOutputs, replayClean, txn>>

VNext == Validate

VSpec == VInit /\ [][VNext]_vars

(***************************************************************************)
(* The transaction pool on its own: the wallet's miner has mined          *)
(* MaxHeight blocks, and transactions arrive one after the other.         *)
(***************************************************************************)
RECURSIVE WalletChain(_)
WalletChain(n) ==
    IF n = 0 THEN CreateGenesisState.s
    ELSE Bind(WalletChain(n - 1), LAMBDA s :
              AcceptBlock(s, MinedBy(s.currentBlockID, SCa), GenesisTimestamp).s)

\* Two outputs are spent by one transaction.
PayBoth(o1, v1, o2, v2) ==
    Txn(<<In(o1, SCa), In(o2, SCa)>>, <<Out(v1 + v2, AddrA)>>, << >>, << >>, << >>,
        <<Sig(o1, 0, "k1"), Sig(o2, 0, "k1")>>)

PoolTxChoices(s) ==
    LET k == KnownOutputs(s) IN
    TxChoices(s)
    \cup {Burn(o, k[o].Value) : o \in DOMAIN k}
    \cup {Contract(o, k[o].Value) : o \in DOMAIN k}
    \cup {PayBoth(p[1], k[p[1]].Value, p[2], k[p[2]].Value) :
             p \in {q \in (DOMAIN k) \X (DOMAIN k) : q[1] # q[2]}}

PInit ==
    /\ state = WalletChain(MaxHeight)
    /\ peer = CreateGenesisState.s
    /\ callerOutputs = EmptyMap
    /\ replayClean = TRUE
    /\ txn = TZ
    /\ ret = NoCall

\* A transaction arrives (AcceptTransaction, lines 294-315).
PoolSubmit ==
    /\ state.panic = ""
    /\ \E t \in PoolTxChoices(state) :
          /\ Cardinality(PoolTransactions(state)) < MaxPool \/ transactionPoolConflict(state, t)
          /\ txn' = t
          /\ \E r \in {AcceptTransaction(state, t)} :
                /\ state' = r.s
                /\ ret' = [op |-> "AcceptTransaction", err |-> r.err]
    /\ UNCHANGED <<peer, callerOutputs, replayClean>>

PNext == PoolSubmit

PSpec == PInit /\ [][PNext]_vars

(***************************************************************************)
(* Two engines that are sent the same blocks in any order.                *)
(***************************************************************************)
\* A block at height 1, two branches on top of it, the first of which
\* spends the subsidy of the block they share.
NetX == Blk(GenesisID, 0, GenesisTimestamp, << >>, << >>)

NetA ==
    Blk(BlockID(NetX), 0, GenesisTimestamp,
        <<Pay(SubsidyID(NetX), CalculateCoinbase(1))>>,
        TransactionMerkleRoot(<<Pay(SubsidyID(NetX), CalculateCoinbase(1))>>))

NetB == Blk(BlockID(NetX), 0, GenesisTimestamp, << >>, << >>)

NetC ==
    Blk(BlockID(NetB), 0, GenesisTimestamp,
        <<Contract(SubsidyID(NetB), CalculateCoinbase(2))>>,
        TransactionMerkleRoot(<<Contract(SubsidyID(NetB), CalculateCoinbase(2))>>))

NetD == Blk(BlockID(NetA), 0, GenesisTimestamp + 30, << >>, << >>)

NetE == Blk(BlockID(NetD), 0, GenesisTimestamp + 30, << >>, << >>)

NetBlocks == {NetX, NetA, NetB, NetC, NetD, NetE}

NInit ==
    /\ state = CreateGenesisState.s
    /\ peer = CreateGenesisState.s
    /\ callerOutputs = EmptyMap
    /\ replayClean = TRUE
    /\ txn = TZ
    /\ ret = NoCall

\* The room the bounds leave for block b: a block whose parent the engine
\* does not have is kept as an orphan.
NetFits(s, b) ==
    \/ Has(s.blockMap, b.ParentBlockID)
    \/ BlockID(b) \in Orphans(s)
    \/ Cardinality(Orphans(s)) < MaxOrphans

\* The first engine is sent a block.
NodeReceive ==
    /\ state.panic = ""
    /\ \E b \in NetBlocks, now \in Clock :
          /\ NetFits(state, b)
          /\ state' = AcceptBlock(state, b, now).s
    /\ UNCHANGED <<peer, callerOutputs, replayClean, txn, ret>>

\* The second engine is sent a block.
PeerReceive ==
    /\ peer.panic = ""
    /\ \E b \in NetBlocks, now \in Clock :
          /\ NetFits(peer, b)
          /\ peer' = AcceptBlock(peer, b, now).s
    /\ UNCHANGED <<state, callerOutputs, replayClean, txn, ret>>

NNext == NodeReceive \/ PeerReceive

NSpec == NInit /\ [][NNext]_vars

(***************************************************************************)
(* Fork choice on its own: blocks arrive on any known parent, found       *)
(* quickly (empty, with a file contract of the wallet, or with a payment  *)
(* that does not validate) or at the expected pace (empty); ret holds the *)
(* block and what AcceptBlock returned.                                    *)
(***************************************************************************)
MaxForkBlocks == 5

\* A payment of the genesis subsidy, which no spend conditions unlock.
BadPay == Pay(SubsidyID(GenesisBlock), CalculateCoinbase(0))

ForkTxChoices(s) ==
    {<< >>, <<BadPay>>}
    \cup {<<Contract(o, KnownOutputs(s)[o].Value)>> : o \in DOMAIN KnownOutputs(s)}

ForkChoices(s) ==
    {Blk(p, 0, GenesisTimestamp, txns, TransactionMerkleRoot(txns)) :
        p \in DOMAIN s.blockMap, txns \in ForkTxChoices(s)}
    \cup {Blk(p, 0, GenesisTimestamp + BlockFrequency, << >>, << >>) : p \in DOMAIN s.blockMap}

FInit ==
    /\ state = CreateGenesisState.s
    /\ peer = CreateGenesisState.s
    /\ callerOutputs = EmptyMap
    /\ replayClean = TRUE
    /\ txn = TZ
    /\ ret = NoCall

ForkSubmit ==
    /\ state.panic = ""
    /\ Cardinality(DOMAIN state.blockMap) <= MaxForkBlocks
    /\ \E b \in ForkChoices(state), now \in Clock :
          \E r \in {AcceptBlock(state, b, now)} :
             /\ state' = r.s
             /\ ret' = [op |-> "AcceptBlock", err |-> r.err, block |-> b,
                        rewound |-> r.rewound, applied |-> r.applied]
    /\ UNCHANGED <<peer, callerOutputs, replayClean, txn>>

FNext == ForkSubmit

FSpec == FInit /\ [][FNext]_vars

(***************************************************************************)
(* The block tree on its own: one engine is sent the blocks of NetBlocks  *)
(* and blocks whose header fails a check of validHeader, in any order and *)
(* any number of times; ret holds the block and what AcceptBlock          *)
(* returned.                                                               *)
(***************************************************************************)
\* The ID does not meet the target; the timestamp is before the median of
\* the parent's timestamps; the Merkle root is not that of the
\* transactions; the timestamp is too far in the future.
BadTarget == Blk(GenesisID, 1000000, GenesisTimestamp, << >>, << >>)

BadTime == Blk(BlockID(NetX), 0, GenesisTimestamp - 1, << >>, << >>)

BadRoot == Blk(GenesisID, 0, GenesisTimestamp, << >>, <<TZ>>)

FarFuture == Blk(GenesisID, 0, GenesisTimestamp + FutureThreshold + 1, << >>, << >>)

BadHeaders == {BadTarget, BadTime, BadRoot}

TreeBlocks == NetBlocks \cup BadHeaders \cup {FarFuture}

TInit ==
    /\ state = CreateGenesisState.s
    /\ peer = CreateGenesisState.s
    /\ callerOutputs = EmptyMap
    /\ replayClean = TRUE
    /\ txn = TZ
    /\ ret = NoCall

TreeSubmit ==
    /\ state.panic = ""
    /\ \E b \in TreeBlocks, now \in Clock :
          \E r \in {AcceptBlock(state, b, now)} :
             /\ state' = r.s
             /\ ret' = [op |-> "AcceptBlock", err |-> r.err, block |-> b,
                        rewound |-> r.rewound, applied |-> r.applied]
    /\ UNCHANGED <<peer, callerOutputs, replayClean, txn>>

TNext == TreeSubmit

TSpec == TInit /\ [][TNext]_vars

(***************************************************************************)
(* What the claims speak of.                                              *)
(***************************************************************************)
RECURSIVE SumFn(_)
SumFn(f) ==
    IF DOMAIN f = {} THEN 0
    ELSE LET k == CHOOSE x \in DOMAIN f : TRUE
         IN f[k] + SumFn(Del(f, k))

\* The coins in the utxo set, the coins minted up to height h, the coins
\* held by open contracts.
UnspentValue(s) == SumFn([id \in DOMAIN s.unspentOutputs |-> s.unspentOutputs[id].Value])

CoinbaseSum(h) == SumSeq([i \in 1..(h + 1) |-> CalculateCoinbase(i - 1)])

Escrow(s) == SumFn([id \in DOMAIN s.openContracts |-> s.openContracts[id].FundsRemaining])

\* The blocks of the active chain and the outputs they create.
ChainBlocks(s) == {s.blockMap[s.currentPath[h]].Block : h \in DOMAIN s.currentPath}

CreatedOutputs(s) ==
    {SubsidyID(b) : b \in ChainBlocks(s)}
    \cup UNION {UNION {{OutputID(b.Transactions[i], j - 1) :
                           j \in DOMAIN b.Transactions[i].Outputs} :
                       i \in DOMAIN b.Transactions} :
                b \in ChainBlocks(s)}

\* A list of diffs in reverse order with New flipped.
Flip(diffs) ==
    [i \in DOMAIN diffs |-> [diffs[Len(diffs) + 1 - i] EXCEPT !.New = ~@]]

\* The consensus maps and the pool of two states agree.
SameLedger(s1, s2) ==
    /\ s1.unspentOutputs = s2.unspentOutputs
    /\ s1.spentOutputs = s2.spentOutputs
    /\ s1.openContracts = s2.openContracts

SamePool(s1, s2) ==
    /\ s1.transactionPoolOutputs = s2.transactionPoolOutputs
    /\ s1.transactionPoolProofs = s2.transactionPoolProofs
    /\ s1.transactionList = s2.transactionList

\* The blocks that extend the tip of s with a valid header.
TipBlocks(s) ==
    {b \in BlockChoices(s) :
        /\ b.ParentBlockID = s.currentBlockID
        /\ ~Has(s.blockMap, BlockID(b))
        /\ validHeader(s, b, GenesisTimestamp) = "nil"}

\* Applying block b to s and inverting it again restores s and hands out
\* the diffs of the apply in reverse with New flipped.
BlockRoundTrip(s, b) ==
    Bind(applyBlock(addBlockToTree(s, b).s, b), LAMBDA a :
    a.err = "nil" =>
       Bind(invertRecentBlock(a.s), LAMBDA i :
          /\ i.s.panic = ""
          /\ SameLedger(i.s, s)
          /\ SamePool(i.s, s)
          /\ i.diffs = Flip(a.diffs)))

TransactionRoundTrip(s, t) ==
    validTransaction(s, t) = "nil" =>
       Bind(applyTransaction(s, t), LAMBDA a :
       Bind(invertTransaction(a.s, t), LAMBDA i :
          /\ i.s.panic = ""
          /\ SameLedger(i.s, s)
          /\ SamePool(i.s, s)
          /\ i.diffs = Flip(a.diffs)))

(***************************************************************************)
(* The transaction pool (under PSpec).                                    *)
(***************************************************************************)
\* C1: when the pool holds a transaction that spends an output of the
\* transaction that arrives, AcceptTransaction returns
\* ConflictingTransactionErr, whatever validation would say, and leaves
\* transactionPoolOutputs, transactionPoolProofs and transactionList as
\* they were.
C1_ConflictBeforeValidation ==
    [][(ret'.op = "AcceptTransaction" /\ transactionPoolConflict(state, txn'))
          => (ret'.err = "ConflictingTransactionErr" /\ SamePool(state', state))]_vars

\* A transaction that validation rejects was turned down for its conflict
\* with the pool.
C1_Witness ==
    /\ ret.op = "AcceptTransaction"
    /\ ret.err = "ConflictingTransactionErr"
    /\ PoolTransactions(state) # {}
    /\ transactionPoolConflict(state, txn)
    /\ validTransaction(state, txn) \notin {"nil", "panic"}

(***************************************************************************)
(* Validation (under VSpec).                                              *)
(***************************************************************************)
Accepted == ret.op = "ValidTransaction" /\ ret.err = "nil"

\* C2: validTransaction accepts a transaction only when the values of its
\* inputs add up to exactly its outputs, miner fees and contract funds.
C2_ExactConservation == Accepted => InputSum(state, txn) = OutputSum(txn)

\* The signatures of t for the input that spends id.
SignaturesFor(t, id) == {i \in DOMAIN t.Signatures : t.Signatures[i].InputID = id}

\* C3: validTransaction accepts a transaction only if every input carries
\* exactly NumSignatures signatures, each verified under the key it names,
\* no two of them under the same key index.
C3_DistinctKeysPerInput ==
    Accepted =>
       \A k \in DOMAIN txn.Inputs :
          LET sc == txn.Inputs[k].SpendConditions
              sigs == SignaturesFor(txn, txn.Inputs[k].OutputID)
          IN /\ Cardinality(sigs) = sc.NumSignatures
             /\ \A i \in sigs :
                   /\ txn.Signatures[i].PublicKeyIndex < Len(sc.PublicKeys)
                   /\ VerifyBytes(sc.PublicKeys[txn.Signatures[i].PublicKeyIndex + 1],
                                  txn.Signatures[i].Signature)
             /\ \A i, j \in sigs :
                   i # j => txn.Signatures[i].PublicKeyIndex # txn.Signatures[j].PublicKeyIndex

\* C4: validTransaction accepts a transaction only if every input names an
\* unspent output, its spend conditions hash to the SpendHash of that
\* output, their timelock is at most the current height, and no two inputs
\* name the same output.
C4_InputsResolve ==
    Accepted =>
       \A k \in DOMAIN txn.Inputs :
          /\ Has(state.unspentOutputs, txn.Inputs[k].OutputID)
          /\ CoinAddress(txn.Inputs[k].SpendConditions)
                = state.unspentOutputs[txn.Inputs[k].OutputID].SpendHash
          /\ txn.Inputs[k].SpendConditions.TimeLock <= height(state)
          /\ \A j \in DOMAIN txn.Inputs :
                j # k => txn.Inputs[j].OutputID # txn.Inputs[k].OutputID

\* A transaction with two inputs, one of them under a timelock that has
\* expired, is accepted.
C4_Witness ==
    /\ Accepted
    /\ Len(txn.Inputs) = 2
    /\ \E k \in DOMAIN txn.Inputs : txn.Inputs[k].SpendConditions.TimeLock > 0

(***************************************************************************)
(* The ledger (under Spec).                                               *)
(***************************************************************************)
\* C5: the caller that replays the diffs of CreateGenesisState and of every
\* successful AcceptBlock holds the engine's unspentOutputs, and every diff
\* it replays removes an output it holds or inserts one it does not hold.
C5_ReplayTracksUnspent ==
    state.panic = "" => (callerOutputs = state.unspentOutputs /\ replayClean)

\* C6: applying a valid block to the tip, or a validated transaction, and
\* inverting it again restores unspentOutputs, spentOutputs, openContracts
\* and the pool, and the diffs of the inversion are those of the apply in
\* reverse order with New flipped.
C6_ApplyInvertNoOp ==
    state.panic = "" =>
       /\ \A b \in TipBlocks(state) : BlockRoundTrip(state, b)
       /\ \A t \in TxChoices(state) : TransactionRoundTrip(state, t)

\* C7: inverting the blocks of the active chain from the tip down ends in a
\* state whose stateHash is that of a fresh CreateGenesisState.
C7_RewindToGenesis ==
    state.panic = "" =>
       Bind(RewindTo(state, GenesisID, << >>, << >>).s, LAMBDA g :
            g.panic = "" /\ stateHash(g) = stateHash(CreateGenesisState.s))

\* C9: the values in unspentOutputs add up to the coinbases of heights 0 to
\* the current height less the funds held by open contracts.
C9_CoinsConserved ==
    state.panic = "" =>
       UnspentValue(state) = CoinbaseSum(height(state)) - Escrow(state)

\* C10: no output is both unspent and spent, every output created on the
\* active chain is one or the other, and no other output is either.
C10_OutputInOnePlace ==
    state.panic = "" =>
       /\ (DOMAIN state.unspentOutputs) \cap (DOMAIN state.spentOutputs) = {}
       /\ (DOMAIN state.unspentOutputs) \cup (DOMAIN state.spentOutputs)
             = CreatedOutputs(state)

Mempool(s) == PoolTransactions(s) \cup {s.transactionList[id] : id \in DOMAIN s.transactionList}

InputIDs(t) == {t.Inputs[i].OutputID : i \in DOMAIN t.Inputs}

\* C11: after every call the engine returns from, every input of every
\* pool transaction names an entry of unspentOutputs, and no two pool
\* transactions share an input.
C11_PoolInputsUnspent ==
    state.panic = "" =>
       /\ \A t \in Mempool(state) : InputIDs(t) \subseteq DOMAIN state.unspentOutputs
       /\ \A t1, t2 \in Mempool(state) : t1 # t2 => InputIDs(t1) \cap InputIDs(t2) = {}

\* C12: after every call the engine returns from, every pool transaction
\* passes validTransaction against the state.
C12_PoolStaysValid ==
    state.panic = "" => \A t \in Mempool(state) : validTransaction(state, t) = "nil"

(***************************************************************************)
(* The block tree and the fork choice (under Spec).                       *)
(***************************************************************************)
\* C13: after every AcceptBlock call that returns, currentPath is defined
\* exactly at the heights 0..height, every entry is the ID of a node of
\* blockMap at that height, the entry at the current height is
\* currentBlockID, and every entry above 0 has the entry below it as parent.
C13_PathIsTheChain ==
    state.panic = "" =>
       /\ DOMAIN state.currentPath = 0..height(state)
       /\ \A h \in DOMAIN state.currentPath :
             /\ Has(state.blockMap, state.currentPath[h])
             /\ state.blockMap[state.currentPath[h]].Height = h
       /\ state.currentPath[height(state)] = state.currentBlockID
       /\ \A h \in 1..height(state) :
             state.blockMap[state.currentPath[h]].Block.ParentBlockID = state.currentPath[h - 1]

\* The engine has left the branch of the first child of the genesis block,
\* a block that was applied, for the branch of the second child.
C13_Witness ==
    /\ state.panic = ""
    /\ Len(state.blockMap[GenesisID].Children) >= 2
    /\ state.blockMap[GenesisID].Children[1] \notin state.badBlocks
    /\ height(state) >= 2
    /\ state.currentPath[1] = state.blockMap[GenesisID].Children[2]

(***************************************************************************)
(* Fork choice (under FSpec).                                             *)
(***************************************************************************)
\* The IDs of the chain that ends in node id, the genesis block excluded.
RECURSIVE Ancestry(_, _)
Ancestry(s, id) ==
    IF id = GenesisID THEN << >>
    ELSE Append(Ancestry(s, s.blockMap[id].Block.ParentBlockID), id)

\* Every block of the chain that ends in node id validates when the chain
\* is applied to the genesis state.
ValidChain(s, id) ==
    ApplyBranch([CreateGenesisState.s EXCEPT !.blockMap = s.blockMap],
                Ancestry(s, id), 1, << >>, << >>).err = "nil"

\* C14 as stated: after every AcceptBlock call that returns, no node of
\* blockMap whose chain validates fully is deeper than the node of
\* currentBlockID.
C14_TipIsDeepest ==
    state.panic = "" =>
       \A id \in DOMAIN state.blockMap :
          ValidChain(state, id) => state.blockMap[id].Depth <= currentBlockNode(state).Depth

\* C14 as amended: after every AcceptBlock call that returns, no node of
\* blockMap that is outside badBlocks or whose chain validates fully is
\* deeper than the node of currentBlockID by more than SurpassThreshold of
\* the weight of one block at the target of that node.
C14_TipDeepestUpToThreshold ==
    state.panic = "" =>
       \A id \in DOMAIN state.blockMap :
          (id \notin state.badBlocks \/ ValidChain(state, id)) =>
             state.blockMap[id].Depth * 100 <=
                currentBlockNode(state).Depth * 100
                   + SurpassThreshold * Weight(currentBlockNode(state).Target)

\* A node whose chain validates is deeper than the tip, within the
\* threshold.
C14_Witness ==
    /\ state.panic = ""
    /\ ret.op = "AcceptBlock"
    /\ \E id \in DOMAIN state.blockMap :
          /\ ValidChain(state, id)
          /\ state.blockMap[id].Depth > currentBlockNode(state).Depth

\* The depth of the tip of s plus SurpassThreshold of the weight of one
\* block at its target, in hundredths.
SurpassBar(s) ==
    currentBlockNode(s).Depth * 100 + SurpassThreshold * Weight(currentBlockNode(s).Target)

\* C15: AcceptBlock changes the tip only to the node it has attached and
\* only when the depth of that node exceeds the depth of the tip by more
\* than SurpassThreshold of the weight of one block at the current target;
\* a block that is attached with no more depth than that is stored in
\* blockMap and leaves currentBlockID, currentPath and unspentOutputs as
\* they were.
C15_SwitchOnlyPastThreshold ==
    [][(ret'.op = "AcceptBlock" /\ state'.panic = "") =>
          /\ state'.currentBlockID # state.currentBlockID =>
                /\ state'.currentBlockID = BlockID(ret'.block)
                /\ state'.blockMap[BlockID(ret'.block)].Depth * 100 > SurpassBar(state)
          /\ (/\ ret'.err = "nil"
              /\ childDepth(state.blockMap[ret'.block.ParentBlockID]) * 100 <= SurpassBar(state)) =>
                /\ Has(state'.blockMap, BlockID(ret'.block))
                /\ state'.currentBlockID = state.currentBlockID
                /\ state'.currentPath = state.currentPath
                /\ state'.unspentOutputs = state.unspentOutputs]_vars

\* AcceptBlock has attached a block that is deeper than the tip, and the
\* tip is another block.
C15_Witness ==
    /\ state.panic = ""
    /\ ret.op = "AcceptBlock"
    /\ ret.err = "nil"
    /\ state.currentBlockID # BlockID(ret.block)
    /\ state.blockMap[BlockID(ret.block)].Depth > currentBlockNode(state).Depth

\* The number of leading entries two chains share.
RECURSIVE SharedPrefix(_, _)
SharedPrefix(p, q) ==
    IF p = << >> \/ q = << >> \/ Head(p) # Head(q) THEN 0
    ELSE 1 + SharedPrefix(Tail(p), Tail(q))

\* C16: when AcceptBlock moves the tip from A to the block T it was handed,
\* with L their lowest common ancestor, rewoundBlocks is the old branch
\* from A down to the child of L, appliedBlocks is the new branch from the
\* child of L up to T, currentBlockID is T and currentPath is the chain
\* that ends in T.
C16_ReorganizationLists ==
    [][(/\ ret'.op = "AcceptBlock"
        /\ ret'.err = "nil"
        /\ state'.panic = ""
        /\ state'.currentBlockID # state.currentBlockID) =>
          LET old == Ancestry(state, state.currentBlockID)
              new == Ancestry(state', BlockID(ret'.block))
              k == SharedPrefix(old, new)
          IN /\ ret'.rewound =
                   [i \in 1..(Len(old) - k) |-> state.blockMap[old[Len(old) + 1 - i]].Block]
             /\ ret'.applied =
                   [i \in 1..(Len(new) - k) |-> state'.blockMap[new[k + i]].Block]
             /\ state'.currentBlockID = BlockID(ret'.block)
             /\ state'.currentPath =
                   [h \in 0..Len(new) |-> IF h = 0 THEN GenesisID ELSE new[h]]]_vars

\* A reorganization has rewound two blocks and applied three.
C16_Witness ==
    /\ state.panic = ""
    /\ ret.op = "AcceptBlock"
    /\ ret.err = "nil"
    /\ Len(ret.rewound) = 2
    /\ Len(ret.applied) = 3

\* The first block of a chain that does not validate when the chain is
\* applied to the genesis state.
FirstInvalid(s, chain) ==
    chain[CHOOSE i \in DOMAIN chain :
             /\ ~ValidChain(s, chain[i])
             /\ \A j \in 1..(i - 1) : ValidChain(s, chain[j])]

Waiting(s, b) ==
    /\ Has(s.missingParents, b.ParentBlockID)
    /\ Has(s.missingParents[b.ParentBlockID], BlockID(b))

\* C18: AcceptBlock on a block whose parent is not in blockMap files the
\* block in missingParents[parent][blockID], returns UnknownOrphanErr when
\* the block was not filed before and KnownOrphanErr when it was, and
\* leaves blockMap, currentPath, currentBlockID and unspentOutputs as they
\* were.
C18_OrphansAreFiled ==
    [][(/\ ret'.op = "AcceptBlock"
        /\ ~Has(state.blockMap, ret'.block.ParentBlockID)) =>
          /\ Waiting(state', ret'.block)
          /\ state'.missingParents[ret'.block.ParentBlockID][BlockID(ret'.block)] = ret'.block
          /\ ret'.err = IF Waiting(state, ret'.block) THEN "KnownOrphanErr"
                        ELSE "UnknownOrphanErr"
          /\ state'.blockMap = state.blockMap
          /\ state'.currentPath = state.currentPath
          /\ state'.currentBlockID = state.currentBlockID
          /\ state'.unspentOutputs = state.unspentOutputs]_vars

\* An orphan has been submitted again while a second orphan waits for the
\* same parent.
C18_Witness ==
    /\ ret.op = "AcceptBlock"
    /\ ret.err = "KnownOrphanErr"
    /\ Cardinality(DOMAIN state.missingParents[ret.block.ParentBlockID]) >= 2

\* C19: after every AcceptBlock call that returns, no block with a valid
\* header waits in missingParents for a parent that is in blockMap: when
\* the parent was attached, the orphans filed under it were submitted
\* again, and so were the orphans filed under them.
C19_OrphansFollowTheirParent ==
    state.panic = "" =>
       \A p \in DOMAIN state.missingParents :
          Has(state.blockMap, p) =>
             \A o \in DOMAIN state.missingParents[p] :
                validHeader(state, state.missingParents[p][o], GenesisTimestamp) = "nil"
                   => Has(state.blockMap, o)

\* The errors of validHeader that make a block bad; FutureBlockErr does
\* not, the block is tried again later.
HeaderErrors ==
    {"block does not meet target", "timestamp invalid for being in the past",
     "Block is too large, will not be accepted.",
     "merkle root does not match transactions sent."}

\* C20: AcceptBlock on a block whose header fails validation adds the
\* block to badBlocks and not to blockMap, and AcceptBlock on a block of
\* badBlocks is turned down by the lookup in badBlocks.
C20_BadHeadersRemembered ==
    [][ret'.op = "AcceptBlock" =>
          /\ (/\ BlockID(ret'.block) \notin state.badBlocks
              /\ ~Has(state.blockMap, BlockID(ret'.block))
              /\ Has(state.blockMap, ret'.block.ParentBlockID)
              /\ validHeader(state, ret'.block, GenesisTimestamp) \in HeaderErrors) =>
                /\ BlockID(ret'.block) \in state'.badBlocks
                /\ ~Has(state'.blockMap, BlockID(ret'.block))
          /\ BlockID(ret'.block) \in state.badBlocks =>
                /\ ret'.err = "block is known to be invalid"
                /\ state' = state]_vars


\* ---------------------------------------------------------------------------
\* KSpec: blocks arrive while the wall clock advances.  The parent chains carry
\* one block per BlockFrequency, so that the median of the recent timestamps
\* moves away from the genesis timestamp; ret keeps the time of the last call
\* and peer the chain the run started from.
\* ---------------------------------------------------------------------------

MaxTimedChain == 11

MaxTimedBlocks == 2

MaxTicks == 2

RECURSIVE TimedChain(_)
TimedChain(n) ==
    IF n = 0 THEN CreateGenesisState.s
    ELSE Bind(TimedChain(n - 1), LAMBDA s :
              AcceptBlock(s, Blk(s.currentBlockID, 0,
                                 GenesisTimestamp + n * BlockFrequency, << >>, << >>),
                          GenesisTimestamp).s)

TimedBlocks(s, now) ==
    {Blk(s.currentBlockID, 0, ts, << >>, << >>) :
        ts \in {earliestChildTimestamp(currentBlockNode(s)) + d : d \in {-1, 0, 1}}
               \cup {now + FutureThreshold + d : d \in {-1, 0, 1, 2}}}

KInit ==
    /\ state \in {TimedChain(n) : n \in 0..MaxTimedChain}
    /\ peer = state
    /\ callerOutputs = EmptyMap
    /\ replayClean = TRUE
    /\ txn = TZ
    /\ ret = [op |-> "none", err |-> "nil", now |-> GenesisTimestamp]

TimedSubmit ==
    /\ state.panic = ""
    /\ height(state) < height(peer) + MaxTimedBlocks
    /\ \E now \in {ret.now, ret.now + 1} :
          /\ now <= GenesisTimestamp + MaxTicks
          /\ \E b \in TimedBlocks(state, ret.now) \cup TimedBlocks(state, now) :
                \E r \in {AcceptBlock(state, b, now)} :
                   /\ state' = r.s
                   /\ ret' = [op |-> "AcceptBlock", err |-> r.err, block |-> b,
                              now |-> now, rewound |-> r.rewound, applied |-> r.applied]
    /\ UNCHANGED <<peer, callerOutputs, replayClean, txn>>

KSpec == KInit /\ [][TimedSubmit]_vars

\* The median of a node's recent timestamps: at least half of the window is
\* not above it and at least half is not below it.
MedianOf(ts) ==
    CHOOSE v \in Range(ts) :
       /\ 2 * Cardinality({i \in DOMAIN ts : ts[i] <= v}) > Len(ts)
       /\ 2 * Cardinality({i \in DOMAIN ts : ts[i] >= v}) > Len(ts)

\* A block the tree has a parent for, that is neither known nor known bad, and
\* whose header is right in everything but (possibly) its timestamp.
FreshButForTime(s, b) ==
    /\ BlockID(b) \notin s.badBlocks
    /\ ~Has(s.blockMap, BlockID(b))
    /\ Has(s.blockMap, b.ParentBlockID)
    /\ CheckTarget(b, s.blockMap[b.ParentBlockID].Target)
    /\ EncodedLen(b) <= BlockSizeLimit
    /\ b.MerkleRoot = TransactionMerkleRoot(b.Transactions)

\* C21: a block whose only fault is a timestamp further than FutureThreshold
\* ahead of the clock is refused with FutureBlockErr and leaves the State as it
\* was, so it is neither in badBlocks nor in blockMap; and whenever such a block
\* is submitted at a time at which its timestamp is at most now +
\* FutureThreshold, that call attaches it to the tree.
C21_FutureBlocksAttachLater ==
    [][ret'.op = "AcceptBlock" /\ FreshButForTime(state, ret'.block)
       /\ ret'.block.Timestamp >=
             MedianOf(state.blockMap[ret'.block.ParentBlockID].RecentTimestamps)
       => IF ret'.block.Timestamp > ret'.now + FutureThreshold
          THEN /\ ret'.err = "FutureBlockErr"
               /\ state' = state
               /\ BlockID(ret'.block) \notin state'.badBlocks
               /\ ~Has(state'.blockMap, BlockID(ret'.block))
          ELSE Has(state'.blockMap, BlockID(ret'.block))]_vars

\* A block that was further than FutureThreshold ahead of the clock when the
\* clock started is in the tree after the clock has advanced.
C21_Witness ==
    /\ ret.op = "AcceptBlock"
    /\ ret.err = "nil"
    /\ ret.now > GenesisTimestamp
    /\ ret.block.Timestamp > GenesisTimestamp + FutureThreshold
    /\ Has(state.blockMap, BlockID(ret.block))

\* C22: the timestamp check passes exactly for the timestamps from the median
\* of the parent's recent timestamps up to now + FutureThreshold, both ends
\* included; below the median the block is refused as being in the past, above
\* now + FutureThreshold it is refused with FutureBlockErr.
C22_TimestampWindow ==
    [][ret'.op = "AcceptBlock" /\ FreshButForTime(state, ret'.block)
       => LET ts == ret'.block.Timestamp
              lo == MedianOf(state.blockMap[ret'.block.ParentBlockID].RecentTimestamps)
              hi == ret'.now + FutureThreshold
          IN /\ ts < lo <=> ret'.err = "timestamp invalid for being in the past"
             /\ (ts >= lo /\ ts > hi) <=> ret'.err = "FutureBlockErr"
             /\ (lo <= ts /\ ts <= hi) <=> ret'.err = "nil"]_vars

\* A block stamped exactly with a median that has moved past the genesis
\* timestamp is accepted.
C22_Witness ==
    /\ ret.op = "AcceptBlock"
    /\ ret.err = "nil"
    /\ ret.block.Timestamp > GenesisTimestamp
    /\ ret.block.Timestamp =
          MedianOf(state.blockMap[ret.block.ParentBlockID].RecentTimestamps)

\* C23 (as claimed): AcceptBlock on a block whose ID is already in blockMap
\* returns BlockKnownErr with empty rewound, applied and diff lists and
\* changes nothing in the State.
C23_KnownBlockIsNoOp ==
    [][ret'.op = "AcceptBlock" /\ Has(state.blockMap, BlockID(ret'.block))
       => /\ ret'.err = "BlockKnownErr"
          /\ ret'.rewound = << >> /\ ret'.applied = << >>
          /\ \A now \in Clock : AcceptBlock(state, ret'.block, now).diffs = << >>
          /\ state' = state]_vars

\* C23 (amended): AcceptBlock on a block whose ID is already in blockMap
\* returns empty rewound, applied and diff lists and changes nothing in the
\* State; the error is BlockKnownErr unless a failed reorganization has put
\* the block in badBlocks, and then it is the error for a known invalid block.
C23_KnownBlockIsNoOpUnlessBad ==
    [][ret'.op = "AcceptBlock" /\ Has(state.blockMap, BlockID(ret'.block))
       => /\ ret'.err = IF BlockID(ret'.block) \in state.badBlocks
                        THEN "block is known to be invalid"
                        ELSE "BlockKnownErr"
          /\ ret'.rewound = << >> /\ ret'.applied = << >>
          /\ \A now \in Clock : AcceptBlock(state, ret'.block, now).diffs = << >>
          /\ state' = state]_vars

\* A block of the active chain is submitted once more while the tree also
\* holds a block that failed its reorganization.
C23_Witness ==
    /\ ret.op = "AcceptBlock"
    /\ ret.err = "BlockKnownErr"
    /\ BlockID(ret.block) \in Range(state.currentPath)
    /\ height(state) > 0
    /\ state.badBlocks # {}

\* ---------------------------------------------------------------------------
\* SSpec: subscribers register at any time while blocks of two branches, their
\* orphans and duplicates, blocks with bad headers and a block that fails its
\* reorganization arrive in any order.
\* ---------------------------------------------------------------------------

MaxSubscribers == 2

WatchedBlocks ==
    {NetX, NetA, NetB, NetC, BadTarget,
     Blk(GenesisID, 0, GenesisTimestamp + BlockFrequency, <<BadPay>>,
         TransactionMerkleRoot(<<BadPay>>))}

Subscribe ==
    /\ state.panic = ""
    /\ Len(state.consensusSubscriptions) < MaxSubscribers
    /\ state' = ConsensusSubscribe(state)
    /\ ret' = [op |-> "ConsensusSubscribe", err |-> "nil"]
    /\ UNCHANGED <<peer, callerOutputs, replayClean, txn>>

WatchedSubmit ==
    /\ state.panic = ""
    /\ \E b \in WatchedBlocks, now \in Clock :
          \E r \in {AcceptBlock(state, b, now)} :
             /\ state' = r.s
             /\ ret' = [op |-> "AcceptBlock", err |-> r.err, block |-> b,
                        rewound |-> r.rewound, applied |-> r.applied,
                        diffs |-> r.diffs]
    /\ UNCHANGED <<peer, callerOutputs, replayClean, txn>>

SSpec == TInit /\ [][Subscribe \/ WatchedSubmit]_vars

\* C24: an AcceptBlock call that changes the active chain appends exactly one
\* message to the channel of every registered subscriber, carrying the
\* rewound, applied and diff lists the call returns; every other AcceptBlock
\* call (an orphan, a duplicate, a refused block, a block attached to a fork
\* that stays inactive) leaves every channel as it was.
C24_OneChangePerSwitch ==
    [][ret'.op = "AcceptBlock"
       => /\ DOMAIN state'.consensusSubscriptions = DOMAIN state.consensusSubscriptions
          /\ \A i \in DOMAIN state.consensusSubscriptions :
                state'.consensusSubscriptions[i] =
                   IF state'.currentPath # state.currentPath
                   THEN Append(state.consensusSubscriptions[i],
                               [RewoundBlocks |-> ret'.rewound,
                                AppliedBlocks |-> ret'.applied,
                                OutputDiffs |-> ret'.diffs])
                   ELSE state.consensusSubscriptions[i]]_vars

\* Two subscribers, the second registered after the first change, have
\* received a reorganization as one message; the tree also holds a block that
\* was refused.
C24_Witness ==
    /\ Len(state.consensusSubscriptions) = 2
    /\ Len(state.consensusSubscriptions[1]) > Len(state.consensusSubscriptions[2])
    /\ Len(state.consensusSubscriptions[2]) > 0
    /\ ret.op = "AcceptBlock"
    /\ Len(ret.rewound) > 0
    /\ state.consensusSubscriptions[2][Len(state.consensusSubscriptions[2])].RewoundBlocks
          = ret.rewound
    /\ state.badBlocks # {}

\* An AcceptBlock step that accepts a new block without transactions on top of
\* the active tip, and what it must do to the height and the unspent outputs
\* but for the value of the subsidy.
EmptyBlockOnTip ==
    /\ ret'.op = "AcceptBlock"
    /\ ret'.err = "nil"
    /\ ret'.block.Transactions = << >>
    /\ ret'.block.ParentBlockID = state.currentBlockID
    /\ ~Has(state.blockMap, BlockID(ret'.block))

OneSubsidyAdded ==
    /\ height(state') = height(state) + 1
    /\ state'.currentBlockID = BlockID(ret'.block)
    /\ ~Has(state.unspentOutputs, SubsidyID(ret'.block))
    /\ DOMAIN state'.unspentOutputs =
          DOMAIN state.unspentOutputs \cup {SubsidyID(ret'.block)}
    /\ Cardinality(DOMAIN state'.unspentOutputs) =
          Cardinality(DOMAIN state.unspentOutputs) + 1
    /\ \A o \in DOMAIN state.unspentOutputs :
          state'.unspentOutputs[o] = state.unspentOutputs[o]
    /\ state'.unspentOutputs[SubsidyID(ret'.block)].SpendHash = ret'.block.MinerAddress

MaxMined == 1

MInit ==
    /\ state \in {WalletChain(n) : n \in 1..MaxHeight}
    /\ peer = state
    /\ callerOutputs = EmptyMap
    /\ replayClean = TRUE
    /\ txn = TZ
    /\ ret = NoCall

\* The wallet sends a transaction (AcceptTransaction, lines 294-315).
WalletSubmit ==
    /\ state.panic = ""
    /\ \E t \in PoolTxChoices(state) :
          /\ Cardinality(PoolTransactions(state)) < MaxPool \/ transactionPoolConflict(state, t)
          /\ \E r \in {AcceptTransaction(state, t)} :
                /\ state' = r.s
                /\ ret' = [op |-> "AcceptTransaction", err |-> r.err]
    /\ UNCHANGED <<peer, callerOutputs, replayClean, txn>>

\* The miner's block holds the transactions of the pool, in any order.
MineBlock ==
    /\ state.panic = ""
    /\ height(state) < height(peer) + MaxMined
    /\ \E txns \in {q \in SeqsUpTo(PoolTransactions(state), Cardinality(PoolTransactions(state))) :
                       Range(q) = PoolTransactions(state)
                       /\ Len(q) = Cardinality(PoolTransactions(state))} :
          \E r \in {AcceptBlock(state, Blk(state.currentBlockID, 0, GenesisTimestamp, txns,
                                           TransactionMerkleRoot(txns)), GenesisTimestamp)} :
             /\ state' = r.s
             /\ ret' = [op |-> "AcceptBlock", err |-> r.err,
                        block |-> Blk(state.currentBlockID, 0, GenesisTimestamp, txns,
                                      TransactionMerkleRoot(txns)),
                        rewound |-> r.rewound, applied |-> r.applied]
    /\ UNCHANGED <<peer, callerOutputs, replayClean, txn>>

MSpec == MInit /\ [][WalletSubmit \/ MineBlock]_vars

\* The outputs that the transactions of a block spend.
SpentBy(txns) == UNION {InputIDs(txns[i]) : i \in DOMAIN txns}

MaxCatchUpBlocks == 100

\* State.HeightOfBlock: the height of the node with this ID, anywhere in the
\* tree.
HeightOfBlock(s, bid) ==
    IF ~Has(s.blockMap, bid) THEN [height |-> 0, err |-> "no block of that id found"]
    ELSE [height |-> s.blockMap[bid].Height, err |-> "nil"]

\* State.blockAtHeight: the block of the active chain at this height.  A
\* height below 0 stands for the outcome of an unsigned subtraction that
\* wrapped around: a height no chain has.
blockAtHeight(s, h) ==
    IF h >= 0 /\ Has(s.currentPath, h) /\ Has(s.blockMap, s.currentPath[h])
    THEN [b |-> s.blockMap[s.currentPath[h]].Block, err |-> "nil"]
    ELSE [b |-> GenesisBlock, err |-> "no block at height found"]

SendBlocks_OneMore(s, knownBlocks) ==
    LET RECURSIVE HighestKnown(_, _)
        HighestKnown(i, acc) ==
            IF i > Len(knownBlocks) THEN acc
            ELSE Bind(HeightOfBlock(s, knownBlocks[i]), LAMBDA h :
                 HighestKnown(i + 1,
                              IF h.err # "nil" THEN acc
                              ELSE [found |-> TRUE,
                                    highest |-> IF h.height > acc.highest THEN h.height
                                                ELSE acc.highest]))
        Sent(highest) ==
            LET stops == {i \in 0..MaxCatchUpBlocks : blockAtHeight(s, highest + i).err # "nil"}
            IN IF stops = {} THEN MaxCatchUpBlocks + 1
               ELSE CHOOSE i \in stops : \A j \in stops : i <= j
    IN Bind(HighestKnown(1, [found |-> FALSE, highest |-> 0]), LAMBDA m :
       IF ~m.found THEN [blocks |-> << >>, err |-> "no matching block found"]
       ELSE [blocks |-> [i \in 1..Sent(m.highest) |-> blockAtHeight(s, m.highest + i - 1).b],
             err |-> IF blockAtHeight(s, m.highest + MaxCatchUpBlocks).err = "nil"
                     THEN "more blocks are available" ELSE "nil"])

\* Core.SendBlocks: the answer to a list of known block IDs.  The loop that
\* collects the blocks stops at the first height without a block or after
\* MaxCatchUpBlocks blocks: Sent is the number of blocks it has appended.
SendBlocks(s, knownBlocks) ==
    LET RECURSIVE HighestKnown(_, _)
        HighestKnown(i, acc) ==
            IF i > Len(knownBlocks) THEN acc
            ELSE Bind(HeightOfBlock(s, knownBlocks[i]), LAMBDA h :
                 HighestKnown(i + 1,
                              IF h.err # "nil" THEN acc
                              ELSE [found |-> TRUE,
                                    highest |-> IF h.height > acc.highest THEN h.height
                                                ELSE acc.highest]))
        Sent(highest) ==
            LET stops == {i \in 0..(MaxCatchUpBlocks - 1) : blockAtHeight(s, highest + i).err # "nil"}
            IN IF stops = {} THEN MaxCatchUpBlocks
               ELSE CHOOSE i \in stops : \A j \in stops : i <= j
    IN Bind(HighestKnown(1, [found |-> FALSE, highest |-> 0]), LAMBDA m :
       IF ~m.found THEN [blocks |-> << >>, err |-> "no matching block found"]
       ELSE [blocks |-> [i \in 1..Sent(m.highest) |-> blockAtHeight(s, m.highest + i - 1).b],
             err |-> IF blockAtHeight(s, m.highest + MaxCatchUpBlocks).err = "nil"
                     THEN "more blocks are available" ELSE "nil"])

KnownHeights_NoGenesis(tip) ==
    LET RECURSIVE RecentHeights(_, _)
        RecentHeights(i, known) ==
            IF i >= 12 \/ tip - i < 0 THEN known
            ELSE RecentHeights(i + 1, Append(known, tip - i))
        RECURSIVE BackoffHeights(_, _, _)
        BackoffHeights(i, backtrace, known) ==
            IF i >= 31 \/ tip - 2 * backtrace < 0 THEN known
            ELSE BackoffHeights(i + 1, 2 * backtrace, Append(known, tip - 2 * backtrace))
    IN BackoffHeights(12, 12, RecentHeights(0, << >>))

\* Core.CatchUp, the heights of the blocks whose IDs it sends, for an active
\* chain that holds the heights 0..tip: the 12 most recent, then the heights
\* reached by stepping back 24, 48, ... from the tip, each loop ending at the
\* first height the chain does not have, then the genesis block.
KnownHeights(tip) ==
    LET RECURSIVE RecentHeights(_, _)
        RecentHeights(i, known) ==
            IF i >= 12 \/ tip - i < 0 THEN known
            ELSE RecentHeights(i + 1, Append(known, tip - i))
        RECURSIVE BackoffHeights(_, _, _)
        BackoffHeights(i, backtrace, known) ==
            IF i >= 31 \/ tip - 2 * backtrace < 0 THEN known
            ELSE BackoffHeights(i + 1, 2 * backtrace, Append(known, tip - 2 * backtrace))
    IN Append(BackoffHeights(12, 12, RecentHeights(0, << >>)), 0)

knownBlocks_GenesisOnly(s) == <<BlockID(blockAtHeight(s, 0).b)>>

\* Core.CatchUp, the list of IDs it sends for state s.
knownBlocks(s) ==
    Bind(KnownHeights(height(s)), LAMBDA hs :
       [i \in DOMAIN hs |-> BlockID(blockAtHeight(s, hs[i]).b)])

\* ---------------------------------------------------------------------------
\* HSpec: the list CatchUp sends as a function of the height of the chain,
\* for the first MaxListed heights and for the heights around every step of
\* the back-off.
\* ---------------------------------------------------------------------------

MaxListed == 60

ChainHeights ==
    0..MaxListed \cup {12 * 2^k + d : k \in 1..20, d \in {-1, 0, 1}}

HInit ==
    /\ state = CreateGenesisState.s
    /\ peer = CreateGenesisState.s
    /\ callerOutputs = EmptyMap
    /\ replayClean = TRUE
    /\ txn = TZ
    /\ ret \in {[op |-> "none", err |-> "nil", height |-> h] : h \in ChainHeights}

ListKnownBlocks ==
    /\ ret.op = "none"
    /\ ret' = [op |-> "CatchUp", err |-> "nil", height |-> ret.height,
               known |-> KnownHeights(ret.height)]
    /\ UNCHANGED <<state, peer, callerOutputs, replayClean, txn>>

HSpec == HInit /\ [][ListKnownBlocks]_vars

\* The heights tip - 12 * 2^k for k = 1..steps, as far as the chain has them.
BackoffTo(tip, steps) ==
    LET ks == {k \in 1..steps : tip - 12 * 2^k >= 0}
    IN [i \in 1..Cardinality(ks) |-> tip - 12 * 2^i]

MostRecent(tip) == [i \in 1..Min(12, tip + 1) |-> tip - (i - 1)]

\* C27 (as claimed): the list CatchUp sends never has more than 32 entries
\* and consists of the 12 most recent blocks of the active chain (as many as
\* exist), then the blocks at heights tip - 12 * 2^k for k = 1..18 while that
\* height exists, and the genesis block at its end.
C27_KnownBlocksEighteenSteps ==
    ret.op = "CatchUp"
    => /\ Len(ret.known) <= 32
       /\ ret.known = MostRecent(ret.height) \o BackoffTo(ret.height, 18) \o <<0>>

\* C27 (amended): as above, with the back-off running for k = 1..19.
C27_KnownBlocksNineteenSteps ==
    ret.op = "CatchUp"
    => /\ Len(ret.known) <= 32
       /\ ret.known = MostRecent(ret.height) \o BackoffTo(ret.height, 19) \o <<0>>
       /\ ret.known[Len(ret.known)] = 0

\* A chain high enough for every step of the back-off: the list is full.
C27_Witness ==
    /\ ret.op = "CatchUp"
    /\ ret.height > 12 * 2^19
    /\ Len(ret.known) = 32

\* The height at which the responder's active chain holds this ID.
PathHeights(s, bid) == {h \in DOMAIN s.currentPath : s.currentPath[h] = bid}

\* C28: SendBlocks starts from the ID of knownBlocks that is highest on the
\* responder's active chain (currentPath); an ID that the responder knows
\* only on a side fork is not a match, and when no ID of the list is on the
\* active chain SendBlocks reports that no matching block was found and
\* returns no blocks.  Stated for the list that CatchUp builds from one
\* engine's State and the answer of the other engine.
C28_MatchOnActiveChain ==
    LET kb == knownBlocks(state)
        r == SendBlocks(peer, kb)
        hs == UNION {PathHeights(peer, kb[i]) : i \in DOMAIN kb}
    IN IF hs = {}
       THEN r.err = "no matching block found" /\ r.blocks = << >>
       ELSE /\ r.err # "no matching block found"
            /\ r.blocks # << >>
            /\ BlockID(r.blocks[1]) = peer.currentPath[CHOOSE h \in hs : \A g \in hs : g <= h]

\* ---------------------------------------------------------------------------
\* YSpec: a requester that has fallen behind catches up with a peer whose
\* chain extends its own.  Both engines hold the same first blocks, the peer
\* alone the rest, one block per BlockFrequency; then the requester calls
\* CatchUp, which calls itself again while the peer signals more blocks.  ret
\* holds the last round of CatchUp: the list sent, the answer, the height the
\* requester had, and whether CatchUp calls itself again.
\* ---------------------------------------------------------------------------

MaxShared == 2

MaxLead == 30

\* The leads of the peer when CatchUp starts: the small ones, and those at
\* which one answer no longer holds every missing block.
SyncLeads == 0..MaxLead \cup {MaxCatchUpBlocks - 1, MaxCatchUpBlocks}

\* F of v, with v evaluated in full before F is entered: TLC evaluates an
\* argument only where it is used, and a long chain passed on unevaluated
\* nests as deep as it is long.
First(v, F(_)) == IF v = v THEN F(v) ELSE F(v)

\* The engine after n more blocks were found on its tip and accepted, the
\* first half of them before the second.
RECURSIVE MineOn(_, _)
MineOn(s, n) ==
    IF n = 0 THEN s
    ELSE IF n = 1
    THEN AcceptBlock(s, Blk(s.currentBlockID, 0,
                            GenesisTimestamp + (height(s) + 1) * BlockFrequency,
                            << >>, << >>),
                     GenesisTimestamp).s
    ELSE First(MineOn(s, n \div 2), LAMBDA half : MineOn(half, n - n \div 2))

\* The loop of CatchUp that hands every block of the answer to AcceptBlock
\* (lines 188-190), blocks lo..hi of the answer.
RECURSIVE AcceptAll(_, _, _, _)
AcceptAll(s, blocks, lo, hi) ==
    IF lo > hi THEN s
    ELSE IF lo = hi THEN AcceptBlock(s, blocks[lo], GenesisTimestamp).s
    ELSE First(AcceptAll(s, blocks, lo, (lo + hi) \div 2), LAMBDA half :
               AcceptAll(half, blocks, (lo + hi) \div 2 + 1, hi))

YInit ==
    /\ \E shared \in 0..MaxShared, lead \in SyncLeads :
          \E s \in {MineOn(CreateGenesisState.s, shared)} :
             /\ state = s
             /\ peer = MineOn(s, lead)
    /\ callerOutputs = EmptyMap
    /\ replayClean = TRUE
    /\ txn = TZ
    /\ ret = NoCall

\* One call of CatchUp (lines 153-198), by the requester or by the previous
\* call.
CatchUp ==
    /\ ret.op = "none" \/ (ret.op = "CatchUp" /\ ret.again)
    /\ \E kb \in {knownBlocks(state)} : \E r \in {SendBlocks(peer, kb)} :
          /\ state' = IF r.err \in {"nil", "more blocks are available"}
                      THEN AcceptAll(state, r.blocks, 1, Len(r.blocks))
                      ELSE state
          /\ ret' = [op |-> "CatchUp", err |-> r.err, knownBlocks |-> kb,
                     blocks |-> r.blocks,
                     again |-> r.err = "more blocks are available",
                     from |-> height(state)]
    /\ UNCHANGED <<peer, callerOutputs, replayClean, txn>>

YSpec == YInit /\ [][CatchUp]_vars

\* The heights at which the responder's active chain holds an ID of the list.
MatchedHeights(s, kb) == UNION {PathHeights(s, kb[i]) : i \in DOMAIN kb}

\* C29: SendBlocks returns at most MaxCatchUpBlocks blocks, the blocks of the
\* active chain at consecutive ascending heights beginning at the matched
\* height, and signals that more blocks are available exactly when the active
\* chain holds blocks beyond the last one returned.
C29_AtMostHundredInOrder ==
    ret.op = "CatchUp" /\ MatchedHeights(peer, ret.knownBlocks) # {}
    => LET hs == MatchedHeights(peer, ret.knownBlocks)
           m == CHOOSE h \in hs : \A g \in hs : g <= h
       IN /\ Len(ret.blocks) <= MaxCatchUpBlocks
          /\ Len(ret.blocks) = Min(MaxCatchUpBlocks, height(peer) - m + 1)
          /\ \A i \in DOMAIN ret.blocks :
                BlockID(ret.blocks[i]) = peer.currentPath[m + i - 1]
          /\ ret.err \in {"nil", "more blocks are available"}
          /\ ret.err = "more blocks are available"
                <=> height(peer) > m + Len(ret.blocks) - 1

\* CatchUp is answered with a full batch and the signal that more blocks
\* are available.
C29_Witness ==
    /\ ret.op = "CatchUp"
    /\ ret.from > 0
    /\ BlockID(ret.blocks[1]) = peer.currentPath[ret.from]
    /\ Len(ret.blocks) = MaxCatchUpBlocks
    /\ ret.err = "more blocks are available"
    /\ height(peer) > ret.from + MaxCatchUpBlocks - 1

\* CatchUp and the calls it started have come to an end.
Ended == ret.op = "CatchUp" /\ ~ret.again

\* C30: when the peer's active chain extends the requester's and no other
\* blocks arrive, every round of CatchUp in which the peer is ahead adds at
\* least one block to the requester's chain, the requester's chain stays a
\* part of the peer's, and CatchUp with the calls it starts can only come to
\* an end with the requester's height and currentPath equal to the peer's.
\* The calls therefore come to an end: each one lowers the lead of the peer.
C30_CatchUpReachesThePeer ==
    ret.op = "CatchUp"
    => /\ height(state) <= height(peer)
       /\ \A h \in DOMAIN state.currentPath : state.currentPath[h] = peer.currentPath[h]
       /\ height(peer) > ret.from => height(state) > ret.from
       /\ Ended => /\ height(state) = height(peer)
                   /\ state.currentPath = peer.currentPath

\* CatchUp came to an end after a call that it had started itself.
C30_Witness ==
    /\ Ended
    /\ state.currentPath = peer.currentPath
    /\ ret.from >= MaxCatchUpBlocks - 1
    /\ height(state) > ret.from

(***************************************************************************)
(* Signatures that do not belong to the transaction (under VSpec).        *)
(***************************************************************************)
\* The signatures of t that name an input t does not have, or a key index
\* outside the key list of the input they name.
StraySignatures(t) ==
    {i \in DOMAIN t.Signatures :
        LET ins == {k \in DOMAIN t.Inputs : t.Inputs[k].OutputID = t.Signatures[i].InputID}
        IN \/ ins = {}
           \/ \E k \in ins :
                 t.Signatures[i].PublicKeyIndex >= Len(t.Inputs[k].SpendConditions.PublicKeys)}

\* C35: for a transaction that carries a signature whose InputID matches
\* none of its inputs, or whose PublicKeyIndex lies outside the key list of
\* its input, validTransaction returns an error and does not crash.
C35_StraySignatureIsAnError ==
    (ret.op = "ValidTransaction" /\ StraySignatures(txn) # {})
    => /\ ret.err \notin {"nil", "panic"}
       /\ state.panic = ""

(***************************************************************************)
(* QSpec: the wallet's miner has mined MaxHeight blocks; transactions are *)
(* validated (ValidTransaction) and submitted (AcceptTransaction) in any  *)
(* order, also while the pool holds transactions.                         *)
(***************************************************************************)
\* ValidTransaction (lines 284-288) is called with a transaction.
PoolValidate ==
    /\ state.panic = ""
    /\ \E t \in PoolTxChoices(state) :
          /\ txn' = t
          /\ \E r \in {ValidTransaction(state, t)} :
                /\ state' = r.s
                /\ ret' = [op |-> "ValidTransaction", err |-> r.err]
    /\ UNCHANGED <<peer, callerOutputs, replayClean>>

\* AcceptTransaction (lines 294-315) is called with a transaction.
PoolAccept ==
    /\ state.panic = ""
    /\ Cardinality(PoolTransactions(state)) <= MaxPool
    /\ \E t \in PoolTxChoices(state) :
          /\ txn' = t
          /\ \E r \in {AcceptTransaction(state, t)} :
                /\ state' = r.s
                /\ ret' = [op |-> "AcceptTransaction", err |-> r.err]
    /\ UNCHANGED <<peer, callerOutputs, replayClean>>

QSpec == PInit /\ [][PoolValidate \/ PoolAccept]_vars

\* The fields of the state that a Go panic leaves as they were (the field
\* panic belongs to the process).
Running(s) == [s EXCEPT !.panic = ""]

\* C32: ValidTransaction never modifies any part of the State, whatever it
\* returns; AcceptTransaction never modifies blockMap, currentPath,
\* currentBlockID, unspentOutputs, spentOutputs or openContracts, and when
\* it returns an error the three maps of the mempool are unchanged.
C32_ValidationReadsAcceptanceIsNarrow ==
    [][/\ ret'.op = "ValidTransaction" => Running(state') = Running(state)
       /\ ret'.op = "AcceptTransaction"
          => /\ state'.blockMap = state.blockMap
             /\ state'.currentPath = state.currentPath
             /\ state'.currentBlockID = state.currentBlockID
             /\ state'.unspentOutputs = state.unspentOutputs
             /\ state'.spentOutputs = state.spentOutputs
             /\ state'.openContracts = state.openContracts
             /\ ret'.err # "nil"
                => /\ state'.transactionPoolOutputs = state.transactionPoolOutputs
                   /\ state'.transactionPoolProofs = state.transactionPoolProofs
                   /\ state'.transactionList = state.transactionList]_vars

\* AcceptTransaction turned a transaction down in validation while the pool
\* held another one.
C32_Witness ==
    /\ ret.op = "AcceptTransaction"
    /\ ret.err \notin {"nil", "panic", "ConflictingTransactionErr"}
    /\ PoolTransactions(state) # {}

(***************************************************************************)
(* The pool when blocks are applied (under Spec).                         *)
(***************************************************************************)
\* The transactions of the blocks that s2 has on its active chain and s1
\* has not: the blocks applied by the step from s1 to s2.
AppliedTransactions(s1, s2) ==
    UNION {Range(s2.blockMap[s2.currentPath[h]].Block.Transactions) :
              h \in {g \in DOMAIN s2.currentPath :
                        g \notin DOMAIN s1.currentPath
                        \/ s1.currentPath[g] # s2.currentPath[g]}}

\* C34: after a block is applied on the active chain, none of its
\* transactions remains in the mempool, no transaction that remains in the
\* mempool shares an input with a transaction of the block, and the mempool
\* transactions that do not conflict with the block stay in the pool.
C34_AppliedBlockClearsItsConflicts ==
    [][(state'.panic = "" /\ state'.currentPath # state.currentPath)
       => LET txns == AppliedTransactions(state, state')
          IN /\ \A t \in txns :
                   /\ t \notin Mempool(state')
                   /\ \A p \in Mempool(state') : InputIDs(p) \cap InputIDs(t) = {}
             /\ \A p \in Mempool(state) :
                   (\A t \in txns : InputIDs(p) \cap InputIDs(t) = {})
                   => p \in Mempool(state')]_vars

\* A block with a transaction is on the active chain, and a pool
\* transaction that spends another output is still in the pool.
C34_Witness ==
    /\ state.panic = ""
    /\ \E t \in Range(state.blockMap[state.currentBlockID].Block.Transactions) :
          InputIDs(t) # {}
    /\ Mempool(state) # {}

(***************************************************************************)
(* RSpec: the wallet's miner has mined blocks; the wallet sends           *)
(* transactions, also ones that spend what a pool transaction pays out;   *)
(* the miner puts the pool into a block on the tip; and blocks without    *)
(* transactions of another miner arrive on any block of the tree, so that *)
(* the chain is reorganized.  peer is the engine at the start.            *)
(***************************************************************************)
MaxSideBlocks == 2

\* The outputs that transaction t creates.
CreatedBy(t) == {OutputID(t, i - 1) : i \in DOMAIN t.Outputs}

\* Payments of an output that a pool transaction creates.
ChainedChoices(s) ==
    UNION {{Pay(OutputID(p, i - 1), p.Outputs[i].Value) : i \in DOMAIN p.Outputs} :
              p \in PoolTransactions(s)}

\* The wallet pays an output on: one it holds, or one that a pool
\* transaction is about to create.
RelayChoices(s) ==
    {Pay(o, KnownOutputs(s)[o].Value) : o \in DOMAIN KnownOutputs(s)}
    \cup ChainedChoices(s)

RInit ==
    /\ state = WalletChain(1)
    /\ peer = state
    /\ callerOutputs = EmptyMap
    /\ replayClean = TRUE
    /\ txn = TZ
    /\ ret = NoCall

\* AcceptTransaction (lines 294-315) is called with a transaction.
RelaySubmit ==
    /\ state.panic = ""
    /\ \E t \in RelayChoices(state) :
          /\ Cardinality(PoolTransactions(state)) < MaxPool
             \/ t \in ChainedChoices(state)
          /\ txn' = t
          /\ \E r \in {AcceptTransaction(state, t)} :
                /\ state' = r.s
                /\ ret' = [op |-> "AcceptTransaction", err |-> r.err]
    /\ UNCHANGED <<peer, callerOutputs, replayClean>>

\* AcceptBlock (lines 843-889) is called with a block of another miner.
SideBlock ==
    /\ state.panic = ""
    /\ Cardinality(DOMAIN state.blockMap)
          < Cardinality(DOMAIN peer.blockMap) + MaxMined + MaxSideBlocks
    /\ \E p \in DOMAIN state.blockMap :
          \E b \in {Blk(p, 0, GenesisTimestamp + BlockFrequency, << >>, << >>)} :
             \E r \in {AcceptBlock(state, b, GenesisTimestamp)} :
                /\ state' = r.s
                /\ ret' = [op |-> "AcceptBlock", err |-> r.err, block |-> b,
                           rewound |-> r.rewound, applied |-> r.applied]
    /\ UNCHANGED <<peer, callerOutputs, replayClean, txn>>

RSpec == RInit /\ [][RelaySubmit \/ MineBlock \/ SideBlock]_vars

\* AcceptTransaction turns down every transaction with an input that is not
\* in unspentOutputs, an output that only a pool transaction creates
\* included.
ChainedIsRejected ==
    [][(ret'.op = "AcceptTransaction" /\ ~(InputIDs(txn') \subseteq DOMAIN state.unspentOutputs))
       => /\ ret'.err \notin {"nil", "panic"}
          /\ state' = state]_vars

\* C33: AcceptTransaction never admits a chained transaction, so that no
\* mempool transaction spends an output produced by another mempool
\* transaction.
C33_NoChainedPoolTransactions ==
    state.panic = ""
    => \A t1, t2 \in Mempool(state) : InputIDs(t2) \cap CreatedBy(t1) = {}

(***************************************************************************)
(* The timestamps a node remembers (under KSpec).                         *)
(***************************************************************************)
\* The timestamps of node id and of its MedianTimestampWindow - 1 nearest
\* ancestors, oldest first, GenesisTimestamp where the chain is shorter.
WindowOf(s, id) ==
    [i \in 1..MedianTimestampWindow |->
        LET h == s.blockMap[id].Height - (MedianTimestampWindow - i)
        IN IF h < 0 THEN GenesisTimestamp
           ELSE AncestorAt(s, id, h).Block.Timestamp]

\* C36: for every node of blockMap, RecentTimestamps holds the timestamps
\* of the node and its 10 nearest ancestors (padded with GenesisTimestamp),
\* and along every parent-child link the earliest timestamp allowed for a
\* child does not decrease.
C36_RecentTimestampsAndRisingMedian ==
    \A id \in DOMAIN state.blockMap :
       /\ state.blockMap[id].RecentTimestamps = WindowOf(state, id)
       /\ id # GenesisID
          => earliestChildTimestamp(state.blockMap[id])
                >= earliestChildTimestamp(state.blockMap[state.blockMap[id].Block.ParentBlockID])

\* A chain longer than the window, so that no padding is left, on which
\* the earliest timestamp of a child has risen, with a last block that
\* raised it above its parent's.
C36_Witness ==
    \E id \in DOMAIN state.blockMap :
       /\ state.blockMap[id].Height > MedianTimestampWindow
       /\ GenesisTimestamp \notin Range(state.blockMap[id].RecentTimestamps)
       /\ earliestChildTimestamp(state.blockMap[id])
             > earliestChildTimestamp(state.blockMap[state.blockMap[id].Block.ParentBlockID])

OnLighterFork ==
    /\ state.panic = "" /\ peer.panic = ""
    /\ PathHeights(peer, state.currentBlockID) = {}
    /\ PathHeights(state, peer.currentBlockID) = {}
    /\ currentBlockNode(peer).Depth > currentBlockNode(state).Depth

\* C39: when the requester's recent blocks lie on a fork that diverges from
\* the peer's active chain at a common ancestor, every block that SendBlocks
\* returns for the requester's knownBlocks is already known to the requester
\* or has a parent the requester knows when the block is handed to
\* AcceptBlock (in its tree, or earlier in the answer): none becomes an
\* orphan at the requester.
C39_NoOrphansFromCatchUp ==
    OnLighterFork
    => LET blocks == SendBlocks(peer, knownBlocks(state)).blocks
       IN \A i \in DOMAIN blocks :
             \/ Has(state.blockMap, BlockID(blocks[i]))
             \/ BlockID(blocks[i]) \in Orphans(state)
             \/ Has(state.blockMap, blocks[i].ParentBlockID)
             \/ \E j \in 1..(i - 1) : BlockID(blocks[j]) = blocks[i].ParentBlockID


\* ---------------------------------------------------------------------------
\* LSpec: the lock of the engine (State.mu, a sync.RWMutex).  One goroutine
\* makes a call of the core (the sequence of testMinerDeadlocking, SendBlocks,
\* or the list of CatchUp) while another one sends blocks and transactions to
\* the engine.  ret holds the lock (readers, writer), what is left of the
\* call (todo), its local variables, whether a writer has had to wait for
\* the caller (waited), and the consensus states the engine has
\* been in since the call began (seen, paths).
\* ---------------------------------------------------------------------------

MaxWrites == 2

\* An exported accessor of State (Height, BlockAtHeight, HeightOfBlock,
\* CurrentBlock, EarliestTimestamp, CurrentTarget): s.mu.RLock(), the read,
\* and the deferred s.mu.RUnlock().
Accessor(f, arg) ==
    <<[k |-> "RLock", f |-> f, arg |-> arg],
      [k |-> "Read", f |-> f, arg |-> arg],
      [k |-> "RUnlock", f |-> f, arg |-> arg]>>

\* A call on the miner or the wallet, which does not touch the engine.
Component(f) == <<[k |-> "Call", f |-> f, arg |-> 0]>>

UpdateMiner_ReadLocked ==
    <<[k |-> "RLock", f |-> "UpdateMiner", arg |-> 0]>>
    \o Accessor("CurrentBlock", 0)
    \o Component("SubsidyAddress")
    \o Accessor("TransactionPoolDump", 0)
    \o Accessor("CurrentTarget", 0)
    \o Accessor("EarliestTimestamp", 0)
    \o Component("miner.UpdateMiner")
    \o <<[k |-> "RUnlock", f |-> "UpdateMiner", arg |-> 0]>>

\* Core.UpdateMiner: the calls it makes, in the order of the function body
\* and of the fields of the MinerUpdate literal.
UpdateMiner ==
    Accessor("CurrentBlock", 0)
    \o Component("SubsidyAddress")
    \o Accessor("TransactionPoolDump", 0)
    \o Accessor("CurrentTarget", 0)
    \o Accessor("EarliestTimestamp", 0)
    \o Component("miner.UpdateMiner")

testMinerDeadlocking ==
    Component("MinerInfo") \o UpdateMiner \o Component("StartMining")
    \o Component("MinerInfo") \o Component("StopMining")

\* State.TransactionPoolDump: the transactions of the pool.
TransactionPoolDump(s) == PoolTransactions(s)

\* What the accessor f returns in state s.
ReadValue(s, r, f, arg) ==
    CASE f = "CurrentBlock" -> currentBlockNode(s).Block
      [] f = "TransactionPoolDump" -> TransactionPoolDump(s)
      [] f = "CurrentTarget" -> currentBlockNode(s).Target
      [] f = "EarliestTimestamp" -> earliestChildTimestamp(currentBlockNode(s))
      [] f = "Height" -> height(s)
      [] f = "BlockAtHeight" -> blockAtHeight(s, arg)
      [] f = "HeightOfBlock" -> HeightOfBlock(s, r.kb[arg])

\* The MinerUpdate of one consensus state.
MinerUpdateOf(s) ==
    [Parent |-> s.currentBlockID,
     Transactions |-> TransactionPoolDump(s),
     Target |-> currentBlockNode(s).Target,
     EarliestTimestamp |-> earliestChildTimestamp(currentBlockNode(s))]

\* Core.UpdateMiner after an accessor has returned v: the field of the
\* MinerUpdate that v becomes.
UpdateMinerReturned(r, f, v) ==
    CASE f = "CurrentBlock" -> [r EXCEPT !.update.Parent = BlockID(v)]
      [] f = "TransactionPoolDump" -> [r EXCEPT !.update.Transactions = v]
      [] f = "CurrentTarget" -> [r EXCEPT !.update.Target = v]
      [] f = "EarliestTimestamp" -> [r EXCEPT !.update.EarliestTimestamp = v]

\* Core.SendBlocks after an accessor has returned v: the loop over the
\* known IDs, the loop over the heights, and the look at the height after
\* the last one.
SendBlocksReturned(r, f, v) ==
    IF f = "HeightOfBlock"
    THEN Bind([r EXCEPT !.found = @ \/ v.err = "nil",
                        !.highest = IF v.err = "nil" /\ v.height > @ THEN v.height ELSE @,
                        !.i = @ + 1],
              LAMBDA q :
                 IF q.i <= Len(q.kb)
                 THEN [q EXCEPT !.todo = @ \o Accessor("HeightOfBlock", q.i)]
                 ELSE IF ~q.found THEN [q EXCEPT !.err = "no matching block found"]
                 ELSE [q EXCEPT !.phase = "send", !.i = q.highest,
                                !.todo = @ \o Accessor("BlockAtHeight", q.highest)])
    ELSE IF r.phase = "send"
    THEN IF v.err = "nil" /\ r.i + 1 < r.highest + MaxCatchUpBlocks
         THEN [r EXCEPT !.blocks = Append(@, v.b), !.i = @ + 1,
                        !.todo = @ \o Accessor("BlockAtHeight", r.i + 1)]
         ELSE [r EXCEPT !.blocks = IF v.err = "nil" THEN Append(@, v.b) ELSE @,
                        !.phase = "more",
                        !.todo = @ \o Accessor("BlockAtHeight", r.highest + MaxCatchUpBlocks)]
    ELSE [r EXCEPT !.phase = "done",
                   !.err = IF v.err = "nil" THEN "more blocks are available" ELSE "nil"]

\* Core.CatchUp after an accessor has returned v: the twelve most recent
\* heights, the heights of the back-off, the genesis block.
CatchUpReturned(r, f, v) ==
    IF f = "Height"
    THEN [r EXCEPT !.todo = @ \o Accessor("BlockAtHeight",
                                          v - (IF r.phase = "recent" THEN r.i ELSE r.backtrace))]
    ELSE IF r.phase = "recent"
    THEN IF v.err = "nil" /\ r.i + 1 < 12
         THEN [r EXCEPT !.known = Append(@, BlockID(v.b)), !.i = @ + 1,
                        !.todo = @ \o Accessor("Height", 0)]
         ELSE [r EXCEPT !.known = IF v.err = "nil" THEN Append(@, BlockID(v.b)) ELSE @,
                        !.phase = "backoff", !.i = 12, !.backtrace = 24,
                        !.todo = @ \o Accessor("Height", 0)]
    ELSE IF r.phase = "backoff"
    THEN IF v.err = "nil" /\ r.i + 1 < 31
         THEN [r EXCEPT !.known = Append(@, BlockID(v.b)), !.i = @ + 1,
                        !.backtrace = 2 * @,
                        !.todo = @ \o Accessor("Height", 0)]
         ELSE [r EXCEPT !.known = IF v.err = "nil" THEN Append(@, BlockID(v.b)) ELSE @,
                        !.phase = "genesis",
                        !.todo = @ \o Accessor("BlockAtHeight", 0)]
    ELSE [r EXCEPT !.known = Append(@, BlockID(v.b)), !.phase = "done"]

Returned(r, f, v) ==
    CASE r.op = "testMinerDeadlocking" -> UpdateMinerReturned(r, f, v)
      [] r.op = "SendBlocks" -> SendBlocksReturned(r, f, v)
      [] r.op = "CatchUp" -> CatchUpReturned(r, f, v)

\* The engine after the blocks of a sequence.
RECURSIVE AcceptSeq(_, _)
AcceptSeq(s, blocks) ==
    IF blocks = << >> THEN s
    ELSE AcceptSeq(AcceptBlock(s, Head(blocks), GenesisTimestamp).s, Tail(blocks))

\* The engines the call is made on: a chain of one block, and a tree with
\* two branches one block short of a reorganization.
LockStarts ==
    {AcceptSeq(CreateGenesisState.s, <<NetX>>),
     AcceptSeq(CreateGenesisState.s, <<NetX, NetB, NetC, NetA, NetD>>)}

\* The transaction of NetA, sent to the pool.
NetPay == Pay(SubsidyID(NetX), CalculateCoinbase(1))

LockCall(op, todo, s) ==
    [op |-> op, err |-> "nil", todo |-> todo,
     readers |-> 0, writer |-> "idle", writes |-> 0,
     update |-> [Parent |-> << >>, Transactions |-> {}, Target |-> 0,
                 EarliestTimestamp |-> 0],
     handed |-> FALSE, waited |-> FALSE,
     kb |-> <<GenesisID>>, found |-> FALSE, highest |-> 0, i |-> 0,
     backtrace |-> 12, phase |-> "", blocks |-> << >>, known |-> << >>,
     seen |-> {MinerUpdateOf(s)}, paths |-> {s.currentPath}]

LInit ==
    /\ state \in LockStarts
    /\ peer = state
    /\ callerOutputs = EmptyMap
    /\ replayClean = TRUE
    /\ txn = TZ
    /\ ret \in {LockCall("testMinerDeadlocking", testMinerDeadlocking, state),
                [LockCall("SendBlocks", Accessor("HeightOfBlock", 1), state)
                    EXCEPT !.i = 1],
                [LockCall("CatchUp", Accessor("Height", 0), state)
                    EXCEPT !.phase = "recent"]}

Locking == ret.op \in {"testMinerDeadlocking", "SendBlocks", "CatchUp"}

\* s.mu.RLock(): a reader waits while a writer holds the lock or waits for
\* it.
ReaderRLock ==
    /\ Locking /\ ret.todo # << >>
    /\ Head(ret.todo).k = "RLock"
    /\ ret.writer = "idle"
    /\ ret' = [ret EXCEPT !.todo = Tail(@), !.readers = @ + 1]
    /\ UNCHANGED <<state, peer, callerOutputs, replayClean, txn>>

\* The body of an accessor.
ReaderRead ==
    /\ Locking /\ ret.todo # << >>
    /\ Head(ret.todo).k = "Read"
    /\ ret' = Returned([ret EXCEPT !.todo = Tail(@)], Head(ret.todo).f,
                       ReadValue(state, ret, Head(ret.todo).f, Head(ret.todo).arg))
    /\ UNCHANGED <<state, peer, callerOutputs, replayClean, txn>>

\* s.mu.RUnlock().
ReaderRUnlock ==
    /\ Locking /\ ret.todo # << >>
    /\ Head(ret.todo).k = "RUnlock"
    /\ ret' = [ret EXCEPT !.todo = Tail(@), !.readers = @ - 1]
    /\ UNCHANGED <<state, peer, callerOutputs, replayClean, txn>>

\* A call on the miner; miner.UpdateMiner is handed the MinerUpdate.
ReaderCall ==
    /\ Locking /\ ret.todo # << >>
    /\ Head(ret.todo).k = "Call"
    /\ ret' = [ret EXCEPT !.todo = Tail(@),
                          !.handed = @ \/ Head(ret.todo).f = "miner.UpdateMiner"]
    /\ UNCHANGED <<state, peer, callerOutputs, replayClean, txn>>

\* s.mu.Lock() of AcceptBlock or AcceptTransaction is called: from now on
\* no reader gets the lock.
WriterLock ==
    /\ Locking /\ ret.writer = "idle"
    /\ ret.writes < MaxWrites
    /\ ret' = [ret EXCEPT !.writer = "waiting", !.waited = @ \/ ret.readers > 0]
    /\ UNCHANGED <<state, peer, callerOutputs, replayClean, txn>>

\* s.mu.Lock() returns when the last reader has left.
WriterEnters ==
    /\ Locking /\ ret.writer = "waiting"
    /\ ret.readers = 0
    /\ ret' = [ret EXCEPT !.writer = "holding"]
    /\ UNCHANGED <<state, peer, callerOutputs, replayClean, txn>>

Written(r, s) ==
    [r EXCEPT !.writer = "idle", !.writes = @ + 1,
              !.seen = @ \cup {MinerUpdateOf(s)},
              !.paths = @ \cup {s.currentPath}]

\* AcceptBlock under the lock, and the deferred s.mu.Unlock().
WriteBlock ==
    /\ Locking /\ ret.writer = "holding"
    /\ \E b \in NetBlocks :
          /\ NetFits(state, b)
          /\ \E r \in {AcceptBlock(state, b, GenesisTimestamp)} :
                /\ state' = r.s
                /\ ret' = Written(ret, r.s)
    /\ UNCHANGED <<peer, callerOutputs, replayClean, txn>>

\* AcceptTransaction under the lock, and the deferred s.mu.Unlock().
WriteTransaction ==
    /\ Locking /\ ret.writer = "holding"
    /\ \E r \in {AcceptTransaction(state, NetPay)} :
          /\ state' = r.s
          /\ ret' = Written(ret, r.s)
    /\ UNCHANGED <<peer, callerOutputs, replayClean, txn>>

Reader == ReaderRLock \/ ReaderRead \/ ReaderRUnlock \/ ReaderCall

Writer == WriterLock \/ WriterEnters \/ WriteBlock \/ WriteTransaction

LSpec == LInit /\ [][Reader \/ Writer]_vars

\* The Go scheduler runs every goroutine that is not blocked.
LFair == LSpec /\ WF_vars(Reader) /\ WF_vars(Writer)

C37_MinerUpdateIsOneSnapshot ==
    (ret.op = "testMinerDeadlocking" /\ ret.handed) => ret.update \in ret.seen

\* Each block after the first has the block before it as its parent.
Contiguous(blocks) ==
    \A i \in 2..Len(blocks) : blocks[i].ParentBlockID = BlockID(blocks[i - 1])

\* The IDs are all on one of the paths.
OnOneChain(ids, paths) ==
    \E p \in paths : \A i \in DOMAIN ids : \E h \in DOMAIN p : p[h] = ids[i]

SendBlocksContiguous ==
    (ret.op = "SendBlocks" /\ ret.phase = "done") => Contiguous(ret.blocks)

KnownBlocksOnOneChain ==
    (ret.op = "CatchUp" /\ ret.phase = "done") => OnOneChain(ret.known, ret.paths)

\* C38: the blocks that SendBlocks returns are a contiguous segment of a
\* chain, and the IDs that CatchUp lists are all on one of the active chains
\* the engine has had during the call, whatever AcceptBlock does at the same
\* time.
C38_SegmentAndKnownBlocksOnOneChain ==
    SendBlocksContiguous /\ KnownBlocksOnOneChain

====
